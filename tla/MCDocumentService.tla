------------------------- MODULE MCDocumentService -------------------------
(* Three overlapping calls on at most as many documents.                   *)
EXTENDS DocumentService, Sequences, TLC

Seqs == INSTANCE SequencesExt

\* Calls only differ by name.  The run checks liveness, where symmetry is not
\* sound, so every behaviour is checked under one choice of names: adds take the
\* first names in the order they arrive, all other calls the last.
Order == Seqs!SetToSeq(Calls)

IsAdd(r) == r # None /\ r.op = "add"

InTurn(c, r) ==
  \E i \in 1..Len(Order) :
    /\ Order[i] = c
    /\ \A j \in IF IsAdd(r) THEN 1 .. i - 1 ELSE i + 1 .. Len(Order) :
         call[Order[j]].pc # "new"

OrderedNext ==
  \/ \E c \in Calls : Receive(c) /\ InTurn(c, call'[c].req)
  \/ \E c \in Calls : Step(c) \/ InsertFails(c) \/ StoreError(c)
  \/ \E c \in Calls : Hang(c) \/ Wake(c) \/ Leave(c)
  \/ \E k \in Calls : DeleteBlob(k)
  \/ Stop \/ Exit \/ Crash \/ Restart

OrderedSpec == Init /\ [][OrderedNext]_vars /\ Fairness
=============================================================================
