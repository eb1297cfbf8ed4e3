--------------------------- MODULE InOrderStream ----------------------------
(***************************************************************************)
(* What CIOCPServer promises the user of a connection ("read the received  *)
(* data in the order in which the I/O was posted"): the reads, numbered in *)
(* the order they were posted, are handed to OnReadCompleted one after the *)
(* other, none skipped, none twice, and none before it has completed.      *)
(***************************************************************************)
EXTENDS Naturals, Sequences

CONSTANT MaxReads  \* bound: reads posted on the connection

VARIABLES arrived,   \* how many reads have completed
          delivered  \* the numbers of the reads given to OnReadCompleted

StreamInit == arrived = 0 /\ delivered = <<>>

Arrive ==
  /\ arrived < MaxReads
  /\ arrived' = arrived + 1
  /\ UNCHANGED delivered

Deliver ==
  /\ Len(delivered) < arrived
  /\ delivered' = Append(delivered, Len(delivered))
  /\ UNCHANGED arrived

StreamNext == Arrive \/ Deliver

StreamVars == <<arrived, delivered>>

StreamSafety == StreamInit /\ [][StreamNext]_StreamVars

\* Every read that has completed is delivered in the end.
StreamFair == WF_StreamVars(Deliver)

StreamSpec == StreamSafety /\ StreamFair
=============================================================================
