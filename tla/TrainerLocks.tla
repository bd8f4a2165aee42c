----------------------------- MODULE TrainerLocks -----------------------------
(***************************************************************************)
(* Reconnect with the locked entries of the trainer, which every frame     *)
(* writes again (frontend/src/screens/trainer/screen_trainer.cpp).  An     *)
(* entry keeps the PID that was selected when it was made; connecting,     *)
(* disconnecting and restoring the session leave the entries alone.        *)
(***************************************************************************)
EXTENDS Reconnect

VARIABLE locks   \* the processes named by enabled and locked entries, Nobody
                 \* for those made while none was selected

lvars == <<vars, locks>>

LockInit == Init /\ locks = {}

(* An entry is added, imported or loaded from a file. *)
UserLock ==
  /\ alive
  /\ locks' = locks \cup {view.sel}
  /\ UNCHANGED vars

UserUnlock ==
  /\ alive
  /\ \E p \in locks : locks' = locks \ {p}
  /\ UNCHANGED vars

(* The guards of apply_locked_cheats.  Of client_async_busy they test the  *)
(* tasks that are modelled; the others may be idle.                        *)
LocksWrite ==
  /\ TRUE \in ConnectedReads /\ locks # {}
  /\ rc.phase = "Online" /\ ~rc.stale
  /\ ~conn.pending /\ ~mref.pending

LockTargets == {IF p # Nobody THEN p ELSE view.sel : p \in locks} \ {Nobody}

(* The writes go over the control client: on a socket that no longer works *)
(* they fail and may close it.                                             *)
ApplyLockedCheats ==
  /\ alive /\ LocksWrite /\ LockTargets # {}
  /\ IF freed \/ Works(ctl.life) THEN UNCHANGED ctl ELSE CloseOnFailure(ctl.life)
  /\ UNCHANGED <<console, freed, rc, conn, heart, restore, mref, view, alive, locks>>

LockNext ==
  \/ Next /\ UNCHANGED locks
  \/ UserLock \/ UserUnlock \/ ApplyLockedCheats

LockSpec == LockInit /\ [][LockNext]_lvars

(* Writing to old PIDs after rest mode can corrupt memory, so the locks    *)
(* are suspended until the session is verified (apply_locked_cheats), and  *)
(* every reconnection resolves the PID again: whenever the locks write,    *)
(* they write to processes of the console's present life, as far as the    *)
(* connection in use knows it.                                             *)
LocksHitThisLife == LocksWrite => \A p \in LockTargets : p.life = ctl.life
=============================================================================
