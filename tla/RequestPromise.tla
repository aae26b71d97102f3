--------------------------- MODULE RequestPromise ---------------------------
(***************************************************************************)
(* What the control server promises the caller of a request that has to    *)
(* run on the editor's event thread, with no word about how: the request   *)
(* runs at most once, an answer means it ran, and a failure is reported    *)
(* only when no later event can make the request run that has not been     *)
(* taken already.                                                          *)
(***************************************************************************)
CONSTANT Calls
VARIABLES
    fate,  \* what becomes of the request
    told   \* what its caller was told

Fates == {"idle", "open", "taken", "run", "void"}

Init == /\ fate = [c \in Calls |-> "idle"]
        /\ told = [c \in Calls |-> "nothing"]

Ask(c) == /\ fate[c] = "idle"
          /\ fate' = [fate EXCEPT ![c] = "open"]
          /\ UNCHANGED told

\* The editor is closing and refuses at once.
Refuse(c) == /\ fate[c] = "idle"
             /\ fate' = [fate EXCEPT ![c] = "void"]
             /\ told' = [told EXCEPT ![c] = "failed"]

\* Open requests are settled, many at a time: some will run, some never will.
Settle == \E taken \in SUBSET {c \in Calls : fate[c] = "open"},
             void \in SUBSET {c \in Calls : fate[c] = "open"} :
    /\ taken \cap void = {}
    /\ fate' = [c \in Calls |-> IF c \in taken THEN "taken" ELSE
                                IF c \in void THEN "void" ELSE fate[c]]
    /\ UNCHANGED told

Run(c) == /\ fate[c] = "taken"
          /\ fate' = [fate EXCEPT ![c] = "run"]
          /\ UNCHANGED told

TellDone(c) == /\ fate[c] = "run" /\ told[c] = "nothing"
               /\ told' = [told EXCEPT ![c] = "done"]
               /\ UNCHANGED fate

\* To report a failure of an open request is to withdraw it; a failure of one
\* that was taken leaves the caller in doubt.
TellFailed(c) == /\ fate[c] # "idle" /\ told[c] = "nothing"
                 /\ told' = [told EXCEPT ![c] = "failed"]
                 /\ fate' = [fate EXCEPT ![c] = IF @ = "open" THEN "void" ELSE @]

Forget(c) == /\ told[c] # "nothing" /\ fate[c] \in {"run", "void"}
             /\ fate' = [fate EXCEPT ![c] = "idle"]
             /\ told' = [told EXCEPT ![c] = "nothing"]

Next == \/ Settle
        \/ \E c \in Calls : \/ Ask(c) \/ Refuse(c) \/ Run(c)
                            \/ TellDone(c) \/ TellFailed(c) \/ Forget(c)

Spec == Init /\ [][Next]_<<fate, told>>
=============================================================================
