------------------------------- MODULE Polling -------------------------------
(***************************************************************************)
(* What the CamelApp controller promises, without its caches, queue and    *)
(* timers: the operator knows of applications, owes each of them a poll,   *)
(* polls one at a time, publishes a report at most once in a poll, and     *)
(* owes the next poll as soon as this one ends.  It stops owing polls only *)
(* to an application that asked for none, after a report, or that it no    *)
(* longer knows.                                                           *)
(***************************************************************************)
CONSTANTS
    Apps,      \* names of applications
    Reports,   \* what a poll can publish
    Blank,     \* the report of an application that was never polled
    Absent,    \* stands for the report of an application that does not exist
    Nobody     \* no application is being polled

VARIABLES
    report,    \* what is published of each application
    known,     \* applications the operator knows of
    due,       \* applications it owes a poll
    polled,    \* the one it polls, or Nobody
    published, \* whether that poll has published
    resting    \* applications whose last poll asked for no other one

vars == <<report, known, due, polled, published, resting>>

Init ==
    /\ report = [a \in Apps |-> Absent]
    /\ known = {}
    /\ due = {}
    /\ polled = Nobody
    /\ published = FALSE
    /\ resting = {}

Appear(a) ==
    /\ report[a] = Absent
    /\ report' = [report EXCEPT ![a] = Blank]
    /\ UNCHANGED <<known, due, polled, published, resting>>

Vanish(a) ==
    /\ report[a] # Absent
    /\ report' = [report EXCEPT ![a] = Absent]
    /\ UNCHANGED <<known, due, polled, published, resting>>

(* The operator learns that an application appeared or vanished: either    *)
(* way it owes a look.                                                     *)
Learn(a) ==
    /\ known' \in {known \union {a}, known \ {a}}
    /\ due' = due \union {a}
    /\ UNCHANGED <<report, polled, published, resting>>

(* A poll is attempted: afterwards it may still be owed or not.            *)
Attempt(a) ==
    /\ polled = Nobody
    /\ a \in due
    /\ due' \in {due, due \ {a}}
    /\ resting' = resting \ {a}

Begin(a) ==
    /\ Attempt(a)
    /\ a \in known
    /\ polled' = a
    /\ UNCHANGED <<report, known, published>>

(* Nothing to poll.                                                        *)
Drop(a) ==
    /\ Attempt(a)
    /\ a \notin known
    /\ UNCHANGED <<report, known, polled, published>>

(* The poll could not begin and stays owed.                                *)
Postpone(a) ==
    /\ Attempt(a)
    /\ a \in due'
    /\ UNCHANGED <<report, known, polled, published>>

Publish(a) ==
    /\ polled = a
    /\ ~published
    /\ report[a] # Absent
    /\ report' = [report EXCEPT ![a] = report'[a]]
    /\ report'[a] \in Reports
    /\ published' = TRUE
    /\ UNCHANGED <<known, due, polled, resting>>

(* A poll that published nothing is owed again; one that published may     *)
(* leave the application at rest.                                          *)
Finish(a) ==
    /\ polled = a
    /\ polled' = Nobody
    /\ published' = FALSE
    /\ \/ due' = due \union {a} /\ UNCHANGED resting
       \/ published /\ due' = due /\ resting' = resting \union {a}
    /\ UNCHANGED <<report, known>>

(* The operator starts again: it knows what exists and owes it a poll.     *)
StartAgain ==
    /\ known' = {a \in Apps : report[a] # Absent}
    /\ due' = known'
    /\ polled' = Nobody
    /\ published' = FALSE
    /\ resting' = {}
    /\ UNCHANGED report

Next ==
    \/ \E a \in Apps :
        \/ Appear(a) \/ Vanish(a) \/ Learn(a)
        \/ Begin(a) \/ Drop(a) \/ Postpone(a)
        \/ Publish(a) \/ Finish(a)
    \/ StartAgain

Spec == Init /\ [][Next]_vars

(* An application the operator knows of is owed a poll, is being polled,   *)
(* or rests because it asked for no other one.                             *)
PollsOwed == known \subseteq due \union {polled} \union resting
=============================================================================
