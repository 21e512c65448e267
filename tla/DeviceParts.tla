----------------------------- MODULE DeviceParts -----------------------------
(* What one device keeps: the accounts (Accounts), the status updates of a    *)
(* webxdc instance (StatusUpdates) and the schema of a database (Migrations), *)
(* with the variables of each.  MCOwn lets one of them move at a time.        *)
EXTENDS Integers, Sequences

CONSTANTS MaxUuid, Fetches, MaxFaults,
          Own, Theirs, Start, SizeMax, Concurrent, MaxResends, MaxCrashes,
          Steps, Latest, CreatedAt, Created, Undisturbed, MaxStops

VARIABLES mem, disk, open, dirs, step, uuids, given, slot, fetch, faults,
          inst, rows, queue, call, flush, due, resends, crashes,
          version, tables, column, pc, dbversion, at, sub, recode, ran, again, loose, origin, stops

accountVars == <<mem, disk, open, dirs, step, uuids, given, slot, fetch, faults>>
updateVars == <<inst, rows, queue, call, flush, due, resends, crashes>>
schemaVars == <<version, tables, column, pc, dbversion, at, sub, recode, ran, again, loose, origin,
                stops>>

Account == INSTANCE Accounts
Update == INSTANCE StatusUpdates
Schema == INSTANCE Migrations

(* What the theorems about them assume of their constants. *)
\* Calls of send_webxdc_status_update do not overlap: with two of them in flight the later one
\* can set last_serial back.
OneByOne ==
    /\ Concurrent = FALSE
    /\ Own \cap Theirs = {}
    /\ Start \subseteq {"draft", "pending", "sent"}
    /\ MaxResends \in Nat /\ MaxCrashes \in Nat
\* The list of steps is one that an upgrade can rely on, see Migrations.
StepsFit == Schema!WellFormed
ASSUME DeviceAssumption == MaxUuid \in Nat /\ OneByOne /\ StepsFit
=============================================================================
