----------------------------- MODULE PasteStore -----------------------------
(***************************************************************************)
(* What a paste store promises its callers, with no tables, hashes or      *)
(* references in sight.  A paste is put once under an id nobody used       *)
(* before; while it is shown, a reader gets exactly the text that was put; *)
(* a burn-after-read paste is shown to one reader; and a paste that has    *)
(* stopped being shown (read, expired, deleted, lost) never comes back.    *)
(* SqlStorage implements this.                                             *)
(***************************************************************************)
EXTENDS Naturals

CONSTANTS
  Ids,     \* paste ids
  Blobs,   \* paste texts
  Null     \* no text

VARIABLES
  text,    \* [Ids -> Blobs \cup {Null}]: what was put under the id, ever
  shown,   \* [Ids -> Blobs \cup {Null}]: what a reader of the id gets now
  reads    \* [Ids -> Nat]: how often the text of a burn paste was handed out

storeVars == <<text, shown, reads>>

StoreInit ==
  /\ text  = [i \in Ids |-> Null]
  /\ shown = [i \in Ids |-> Null]
  /\ reads = [i \in Ids |-> 0]

\* A paste put after its deadline has passed is never shown at all.
Put(i, b) ==
  /\ text[i] = Null
  /\ text' = [text EXCEPT ![i] = b]
  /\ shown' \in {shown, [shown EXCEPT ![i] = b]}
  /\ UNCHANGED reads

\* Hand the text of a burn-after-read paste to its only reader.
Take(i) ==
  /\ shown[i] # Null
  /\ reads[i] = 0
  /\ reads' = [reads EXCEPT ![i] = 1]
  /\ shown' = [shown EXCEPT ![i] = Null]
  /\ UNCHANGED text

\* Pastes stop being shown: expiry, deletion, the loss of a shared original.
Hide(S) ==
  /\ shown' = [i \in Ids |-> IF i \in S THEN Null ELSE shown[i]]
  /\ UNCHANGED <<text, reads>>

StoreNext ==
  \/ \E i \in Ids, b \in Blobs : Put(i, b)
  \/ \E i \in Ids : Take(i)
  \/ \E S \in SUBSET Ids : Hide(S)

StoreSpec == StoreInit /\ [][StoreNext]_storeVars

=============================================================================
