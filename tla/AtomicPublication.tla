-------------------------- MODULE AtomicPublication --------------------------
(***************************************************************************)
(* What a directory with a manifest promises its readers: nothing, until   *)
(* in one step it holds the complete work of one writer, for good.         *)
(***************************************************************************)
CONSTANTS Contents, Readers, Nothing

VARIABLES published,  \* the content a reader may take, or Nothing
          taken       \* what each reader has taken

Init == published = Nothing /\ taken = [r \in Readers |-> Nothing]

Publish ==
  /\ published = Nothing /\ published' \in Contents
  /\ UNCHANGED taken

Take(r) ==
  /\ published # Nothing
  /\ taken' = [taken EXCEPT ![r] = published] /\ UNCHANGED published

Release(r) == taken' = [taken EXCEPT ![r] = Nothing] /\ UNCHANGED published

Next == Publish \/ \E r \in Readers : Take(r) \/ Release(r)

Spec == Init /\ [][Next]_<<published, taken>>
=============================================================================
