--------------------------- MODULE HandleOwnership ---------------------------
(***************************************************************************)
(* What the driver promises of the statement handles of one connection.    *)
(* A handle is allocated once, is held while a Stmt, a Rows or both use    *)
(* it, and is handed to SQLFreeHandle once, by the last of its users.      *)
(* Nothing is done with it after that.                                     *)
(***************************************************************************)
CONSTANT Handles

VARIABLES phase,   \* [Handles -> {"unused", "held", "gone"}]
          users    \* [Handles -> SUBSET Roles]

vars == <<phase, users>>

Roles == {"stmt", "rows"}

Init == /\ phase = [x \in Handles |-> "unused"]
        /\ users = [x \in Handles |-> {}]

\* A prepared statement, or a direct query, takes a new handle.
Acquire(x) == /\ phase[x] = "unused"
              /\ phase'[x] = "held"
              /\ users'[x] \in {{"stmt"}, {"rows"}, {"stmt", "rows"}}

\* The call that allocated the handle failed and gave it back.
Reject(x) == /\ phase[x] = "unused"
             /\ phase'[x] = "gone"
             /\ users'[x] = {}

\* A query through a prepared statement shares the statement's handle.
Share(x) == /\ phase[x] = "held"
            /\ users[x] = {"stmt"}
            /\ phase'[x] = "held"
            /\ users'[x] = Roles

\* A user gives the handle up; the last one releases it.
Leave(x) == /\ phase[x] = "held"
            /\ \E u \in users[x] : users'[x] = users[x] \ {u}
            /\ phase'[x] = IF users'[x] = {} THEN "gone" ELSE "held"

\* The connection goes away and takes its handles with it.
Drop(x) == /\ phase[x] = "held"
           /\ phase'[x] = "gone"
           /\ users'[x] = users[x]

Same(x) == phase'[x] = phase[x] /\ users'[x] = users[x]

\* One driver call moves at most a few handles, each by a step of its own.
Next == /\ phase' \in [Handles -> {"unused", "held", "gone"}]
        /\ users' \in [Handles -> SUBSET Roles]
        /\ \A x \in Handles : \/ Acquire(x) \/ Reject(x) \/ Share(x)
                              \/ Leave(x) \/ Drop(x) \/ Same(x)

Spec == Init /\ [][Next]_vars
==============================================================================
