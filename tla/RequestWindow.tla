--------------------------- MODULE RequestWindow ---------------------------
(***************************************************************************)
(* What the request window promises its callers, without retransmission,   *)
(* message IDs, channels or clocks: a request is submitted once, waits in  *)
(* line if it must, flies, and is resolved exactly once; the line moves in *)
(* order of arrival and only when somebody lands; at most Size fly.        *)
(***************************************************************************)
EXTENDS Naturals, Sequences, FiniteSets

CONSTANTS Client, Size

VARIABLES
    status,    \* what the submitter of each request can observe
    line,      \* submitted requests that are not flying yet
    closed     \* the window has shut down

avars == <<status, line, closed>>

Status == {"idle", "queued", "flying", "answered", "failed"}

Flying == {c \in Client : status[c] = "flying"}

AInit ==
    /\ status = [c \in Client |-> "idle"]
    /\ line = <<>>
    /\ closed = FALSE

Submit(c) ==
    /\ status[c] = "idle"
    /\ \/ /\ Cardinality(Flying) < Size
          /\ status' = [status EXCEPT ![c] = "flying"]
          /\ UNCHANGED line
       \/ /\ Cardinality(Flying) = Size
          /\ status' = [status EXCEPT ![c] = "queued"]
          /\ line' = Append(line, c)
    /\ UNCHANGED closed

(* The requests in `landed' are resolved together; the first in line, if   *)
(* any, takes off.                                                         *)
Land(landed, outcome) ==
    /\ landed # {}
    /\ landed \subseteq Flying
    /\ outcome = "answered" => Cardinality(landed) = 1
    /\ line' = IF line = <<>> THEN line ELSE Tail(line)
    /\ status' = [c \in Client |->
            IF c \in landed THEN outcome
            ELSE IF line # <<>> /\ c = Head(line) THEN "flying"
            ELSE status[c]]
    /\ UNCHANGED closed

Close ==
    /\ ~closed
    /\ closed' = TRUE
    /\ line' = <<>>
    /\ status' = [c \in Client |->
            IF status[c] \in {"queued", "flying"} THEN "failed" ELSE status[c]]

ANext ==
    \/ \E c \in Client : Submit(c)
    \/ \E landed \in SUBSET Client, outcome \in {"answered", "failed"} :
            Land(landed, outcome)
    \/ Close

ASafe == AInit /\ [][ANext]_avars
=============================================================================
