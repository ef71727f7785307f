---------------------------- MODULE ObjectStore -----------------------------
(***************************************************************************)
(* What the Cloud Storage emulator promises its clients: buckets, and in   *)
(* each of them objects that are there whole or not at all.  Whatever      *)
(* happens between two of these steps, a restart included, changes         *)
(* nothing a client can read back.  Deletions and ends of the process come *)
(* from outside: no step takes an object away without being told.          *)
(***************************************************************************)
CONSTANTS
  Buckets,   \* bucket names
  Names,     \* object names
  Contents,  \* what an object can hold
  NoObject   \* the content under a name that is not taken

VARIABLES
  buckets,   \* the buckets there are
  contents,  \* the content of every object
  event      \* what the last step was told: a deletion, an end

vars == <<buckets, contents, event>>

Keys == Buckets \X Names

Init ==
  /\ buckets = {}
  /\ contents = [k \in Keys |-> NoObject]
  /\ event = "none"

CreateBucket(b) ==
  /\ b \notin buckets
  /\ buckets' = buckets \cup {b}
  /\ event' = "none"
  /\ UNCHANGED contents

\* Only an empty bucket can be deleted.
DeleteBucket(b) ==
  /\ b \in buckets
  /\ \A n \in Names : contents[<<b, n>>] = NoObject
  /\ buckets' = buckets \ {b}
  /\ event' = "delete"
  /\ UNCHANGED contents

\* An upload puts one whole content under one name of a bucket there is.
Upload(k) ==
  /\ k[1] \in buckets
  /\ contents'[k] \in Contents
  /\ contents' = [contents EXCEPT ![k] = contents'[k]]
  /\ event' = "none"
  /\ UNCHANGED buckets

Copy(from, to) ==
  /\ to[1] \in buckets
  /\ contents[from] # NoObject
  /\ contents' = [contents EXCEPT ![to] = contents[from]]
  /\ event' = "none"
  /\ UNCHANGED buckets

Delete(k) ==
  /\ contents[k] # NoObject
  /\ contents' = [contents EXCEPT ![k] = NoObject]
  /\ event' = "delete"
  /\ UNCHANGED buckets

\* The steps inside an upload, and uploads that are refused.
Work ==
  /\ event' = "none"
  /\ UNCHANGED <<buckets, contents>>

\* The process ends and another one takes over.
Restart ==
  /\ event' = "restart"
  /\ UNCHANGED <<buckets, contents>>

\* What is not promised: the process ended inside the writing of the file.
LoseAll ==
  /\ event' = "torn"
  /\ buckets' = {}
  /\ contents' = [k \in Keys |-> NoObject]

Next ==
  \/ \E b \in Buckets : CreateBucket(b) \/ DeleteBucket(b)
  \/ \E k \in Keys : Upload(k) \/ Delete(k)
  \/ \E from, to \in Keys : Copy(from, to)
  \/ Work \/ Restart \/ LoseAll

Spec == Init /\ [][Next]_vars
=============================================================================
