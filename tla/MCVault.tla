------------------------------- MODULE MCVault -------------------------------
(***************************************************************************)
(* The vault in the Worker's database and its clients: one record of it    *)
(* (VaultRecords) or the ways into it (UnlockModes).  They share no row,   *)
(* so a behaviour is of one of them and the other rests.                   *)
(***************************************************************************)
EXTENDS VaultRecords, UnlockModes, TLC

CONSTANTS t1, t2, t3, p1, p2, p3

VARIABLE part \* what this behaviour is of

\* Two tabs on one device and a third client elsewhere.
MCDeviceOf == (t1 :> "laptop") @@ (t2 :> "laptop") @@ (t3 :> "phone")

UnlockCast(mode, own, asks, lossy, resumes, signs) ==
  [mode |-> mode, passkeys |-> own, asks |-> asks, lossy |-> lossy, resumes |-> resumes,
   signs |-> signs]

NewVault == UnlockCast("none", {}, {"newPassword", "newPasskey"}, TRUE, FALSE, FALSE)

UnlockCasts == {
  NewVault,
  UnlockCast("password", {}, {"changePassword", "toPasskey"}, TRUE, FALSE, FALSE),
  UnlockCast("password", {}, {"newPassword", "createKey", "reset"}, FALSE, FALSE, FALSE),
  UnlockCast("passkey", {p1, p2}, {"toPassword", "removePasskey", "createKey", "revokeKey"},
             FALSE, FALSE, FALSE),
  UnlockCast("passkey", {p1}, {"toPasskey", "removePasskey"}, FALSE, FALSE, FALSE),
  UnlockCast("passkey", {p1}, {"toPassword", "deleteAccount"}, FALSE, FALSE, TRUE),
  UnlockCast("password", {}, {"newPassword", "changePassword", "reset"}, FALSE, TRUE, FALSE)}

Symmetry == Permutations({t1, t2}) \cup Permutations(Contents) \cup Permutations(Passwords)

VaultInit ==
  /\ part \in {"record", "unlock"}
  /\ Init /\ UnlockInit
  /\ part # "record" => type = "address"
  /\ part # "unlock" => cast = NewVault

VaultNext ==
  \/ part = "record" /\ Next       /\ UNCHANGED <<part, unlockVars>>
  \/ part = "unlock" /\ UnlockNext /\ UNCHANGED <<part, vars>>

VaultSpec == VaultInit /\ [][VaultNext]_<<part, vars, unlockVars>>

=============================================================================
