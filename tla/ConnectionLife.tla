---------------------------- MODULE ConnectionLife ----------------------------
(***************************************************************************)
(* The life of a connection as its owner sees it (main/fd_connection.cpp   *)
(* behind main/main.cpp): start() makes its read task or fails, and stop() *)
(* is called by the owner and, at the end of its loop, by the read task.   *)
(* One of them tears it down and then announces that it is closed; a stop()*)
(* that comes second returns at once, whatever the first has left to do.   *)
(* FdConnection and the connections of App both implement it.              *)
(***************************************************************************)
VARIABLES
    running,     \* _running
    reader,      \* where the read task is
    owner,       \* where a task of the owner is in stop(), or "idle"
    torn,        \* descriptor closed, send task gone, queue deleted
    announced    \* the close callback was called
vars == <<running, reader, owner, torn, announced>>

InStop == {"tear", "announce"}

Init ==
    /\ running = FALSE
    /\ reader = "none" /\ owner = "idle"
    /\ torn = FALSE /\ announced = FALSE

Start ==
    /\ reader = "none"
    /\ reader' = "starting"
    /\ running' = TRUE
    /\ UNCHANGED <<owner, torn, announced>>

StartReturns ==
    /\ reader = "starting"
    /\ reader' = "loop"
    /\ UNCHANGED <<running, owner, torn, announced>>

\* The callback comes, but nothing has been torn down.
StartFails ==
    /\ reader = "starting"
    /\ reader' = "failed"
    /\ running' = FALSE
    /\ announced' = TRUE
    /\ UNCHANGED <<owner, torn>>

\* The handshake, once, also when the end has begun already.
Ready ==
    /\ reader = "loop"
    /\ reader' = "open"
    /\ UNCHANGED <<running, owner, torn, announced>>

\* The two that call stop(): the first one clears _running.
ReaderStops ==
    /\ reader \in {"loop", "open"}
    /\ reader' = IF running THEN "tear" ELSE "tail"
    /\ running' = FALSE
    /\ UNCHANGED <<owner, torn, announced>>

OwnerStops ==
    /\ reader \notin {"none", "starting", "failed"}
    /\ running
    /\ running' = FALSE
    /\ owner' = "tear"
    /\ UNCHANGED <<reader, torn, announced>>

ReaderGoes(from, to) == reader = from /\ reader' = to /\ UNCHANGED owner
OwnerGoes(from, to) == owner = from /\ owner' = to /\ UNCHANGED reader

TornDown ==
    /\ ReaderGoes("tear", "announce") \/ OwnerGoes("tear", "announce")
    /\ torn' = TRUE
    /\ UNCHANGED <<running, announced>>

Announced ==
    /\ ReaderGoes("announce", "tail") \/ OwnerGoes("announce", "idle")
    /\ announced' = TRUE
    /\ UNCHANGED <<running, torn>>

ReaderEnds ==
    /\ ReaderGoes("tail", "gone")
    /\ UNCHANGED <<running, torn, announced>>

Next ==
    \/ Start \/ StartReturns \/ StartFails \/ Ready
    \/ ReaderStops \/ OwnerStops \/ TornDown \/ Announced \/ ReaderEnds

Spec == Init /\ [][Next]_vars
-----------------------------------------------------------------------------
(* What the owner may rely on.                                             *)

\* One task at a time is in stop(), and not while the connection runs; it is torn down
\* before it is announced, and announced when the last stop() is over: an owner that
\* deletes it then takes nothing from anybody but the end of the read task.
OneEnd ==
    /\ ~(reader \in InStop /\ owner \in InStop)
    /\ reader \in InStop \/ owner \in InStop => ~running /\ ~announced
    /\ announced => ~running /\ (torn \/ reader = "failed")
    /\ reader \in {"tail", "gone"} => ~running /\ (announced \/ owner \in InStop)
===============================================================================
