----------------------------- MODULE BlockStore -----------------------------
(***************************************************************************)
(* What the file system asks of the storage below it.  Every block is a    *)
(* register.  One call at a time reads or writes one block: a read returns *)
(* what was last written to that block, and a write changes that block and *)
(* no other, before it returns.  On a faulty device the write of a call may*)
(* be lost, and a read may return the junk that was in its buffer.         *)
(***************************************************************************)
CONSTANTS Blocks, Pages, Junk, None
VARIABLES store,    \* the blocks
          request,  \* the call in progress, or None
          result,   \* what the last read returned
          faulty

vars == <<store, request, result, faulty>>

Requests ==
  [op : {"read"}, block : Blocks] \union [op : {"write"}, block : Blocks, page : Pages]
Written == [store EXCEPT ![request.block] = request.page]

Init ==
  /\ store \in [Blocks -> Pages] /\ result \in Pages
  /\ request = None /\ faulty \in BOOLEAN

Call ==
  /\ request = None /\ request' \in Requests
  /\ UNCHANGED <<store, result, faulty>>

(* The write takes effect, at some time during the call.                    *)
Perform ==
  /\ request # None /\ request.op = "write"
  /\ store' = Written
  /\ UNCHANGED <<request, result, faulty>>

ReturnRead ==
  /\ request # None /\ request.op = "read" /\ request' = None
  /\ result' = store[request.block] \/ (faulty /\ result' = Junk)
  /\ UNCHANGED <<store, faulty>>

ReturnWrite ==
  /\ request # None /\ request.op = "write" /\ request' = None
  /\ store' = Written \/ (faulty /\ store' = store)
  /\ UNCHANGED <<result, faulty>>

Next == Call \/ Perform \/ ReturnRead \/ ReturnWrite
Spec == Init /\ [][Next]_vars
=============================================================================
