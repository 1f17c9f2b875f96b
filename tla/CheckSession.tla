---------------------------- MODULE CheckSession ----------------------------
(***************************************************************************)
(* What a check queue promises to the threads that validate blocks: the    *)
(* sessions on it follow one another, and a session is answered with the   *)
(* conjunction of all the checks that were added to it, as if the caller   *)
(* had run them itself.                                                    *)
(***************************************************************************)
CONSTANTS Masters, Checks, Valid, NoMaster

VARIABLES holder,   \* the thread whose session is open, or NoMaster
          added,    \* the checks added to the session
          answer    \* "pending", "valid" or "invalid"

sessionVars == <<holder, added, answer>>

Init == holder = NoMaster /\ added = {} /\ answer = "pending"

Verdict(S) == IF S \subseteq Valid THEN "valid" ELSE "invalid"

Begin(m) ==
    /\ holder = NoMaster
    /\ holder' = m /\ added' = {} /\ answer' = "pending"

Add(S) ==
    /\ holder # NoMaster /\ answer = "pending"
    /\ added' = added \cup S
    /\ UNCHANGED <<holder, answer>>

Answer ==
    /\ holder # NoMaster /\ answer = "pending"
    /\ answer' = Verdict(added)
    /\ UNCHANGED <<holder, added>>

End ==
    /\ holder # NoMaster /\ answer # "pending"
    /\ holder' = NoMaster
    /\ UNCHANGED <<added, answer>>

Next ==
    \/ \E m \in Masters : Begin(m)
    \/ \E S \in SUBSET Checks : Add(S)
    \/ Answer
    \/ End

Spec == Init /\ [][Next]_sessionVars
=============================================================================
