----------------------------- MODULE HistoryLists -----------------------------
(***************************************************************************)
(* The lists of cmd/clipboardnode-bridge/history_store.go.  An entry is    *)
(* told from another by its text alone, so that a history is a sequence of *)
(* texts, newest first; ids, kinds, topics and times are left out.         *)
(***************************************************************************)
EXTENDS Subsequences

\* The loop of prependLocked skips every older entry with the new text.
Without(list, text) == Picked(list, {i \in DOMAIN list : list[i] # text})

\* normalizeLoadedHistory keeps the first of the entries with one text.
Distinct(list) ==
    Picked(list, {i \in DOMAIN list : \A j \in 1 .. (i - 1) : list[j] # list[i]})

\* The n newest entries of a history, or all of them.
Newest(list, n) == IF Len(list) <= n THEN list ELSE SubSeq(list, 1, n)

\* prependLocked tests the limit only after it has copied an older entry: the
\* new text and one other remain even with a limit of one.
Mutant_PrependKeepsOlder(list, text, limit) ==
    <<text>> \o Newest(list, IF limit = 1 THEN 1 ELSE limit - 1)
Mutant_PrependAtEnd(list, text, limit) ==
    Newest(Without(list, text), IF limit = 1 THEN 1 ELSE limit - 1) \o <<text>>
Prepend(list, text, limit) ==
    <<text>> \o Newest(Without(list, text), IF limit = 1 THEN 1 ELSE limit - 1)
===============================================================================
