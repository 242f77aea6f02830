--------------------------- MODULE HostDeviceVar ---------------------------
(***************************************************************************)
(* A variable that the host and the threads of a kernel share.  The host   *)
(* has a copy of its own and the device has one.  An operator takes the    *)
(* variable by value: making the operator marks the host's copy as out of  *)
(* date, and the copy that is made for the kernel launch writes the host's *)
(* value to the device.  The next read by the host fetches what the device *)
(* has.                                                                    *)
(***************************************************************************)
CONSTANT Values

VARIABLES value,       \* _value of the host's object
          device,      \* *_d_value_ptr
          outdated     \* _enable_sync

\* The constructor sets the host's copy and only allocates the device's: what
\* is in that memory is anyone's guess.
Init(v) == /\ value = v
           /\ device \in Values
           /\ outdated = FALSE

\* Assign, make the operator, launch a kernel with it.
AssignAndLaunch(v) == /\ value' = v
                      /\ device' = v
                      /\ outdated' = TRUE

\* Assign and make the operator, but launch nothing.
AssignAndSkip(v) == /\ value' = v
                    /\ outdated' = TRUE
                    /\ UNCHANGED device

DeviceAssign(v) == /\ device' = v
                   /\ UNCHANGED <<value, outdated>>

\* The conversion on the host, without and with the refresh.
Current_Cached == value

Current == IF outdated THEN device ELSE value

HostRead == /\ value' = Current
            /\ outdated' = FALSE
            /\ UNCHANGED device
============================================================================
