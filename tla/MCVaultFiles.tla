----------------------------- MODULE MCVaultFiles -----------------------------
(***************************************************************************)
(* A vault's files, seen from the records that name them (FileCollect), or *)
(* in the Worker's rows and bucket (FileObjects): a behaviour is of one of *)
(* them and the other rests.                                               *)
(***************************************************************************)
EXTENDS FileCollect, FileObjects, TLC

CONSTANTS d1, d2,                        \* devices, the second of an older build
          u1, u2, u3, r1, r2, x1, x2     \* uploads, removals and resets

VARIABLE part \* what this behaviour is of

CollectCast(composing, syncing, unlocking, mints) ==
  [composing |-> composing, syncing |-> syncing, unlocking |-> unlocking, mints |-> mints]

TwoComposers == CollectCast({d1, d2}, {}, {d1}, 1)

MCCasts == {TwoComposers, CollectCast({}, {d1, d2}, {d1}, 3), CollectCast({d1}, {d1}, {}, 2),
            CollectCast({d1}, {}, {d2}, 2), CollectCast({d1}, {d1}, {d2}, 1)}

\* Three ids, room for two files of size 1, and a page of two keys.
Plan(uploading, removing, resetting, reuses) ==
  [uploads |-> uploading, removals |-> removing, resets |-> resetting, reuses |-> reuses]

ThreeUploads == Plan({u1, u2, u3}, {}, {}, FALSE)

MCPlans == {
  ThreeUploads, Plan({u1, u2}, {r1}, {}, TRUE), Plan({u1}, {r1, r2}, {}, TRUE),
  Plan({u1}, {r1}, {x1}, FALSE),
  Plan({u1, u2}, {}, {x1}, FALSE), Plan({u1}, {}, {x1, x2}, FALSE)}

Symmetry == Permutations(Files)

FilesInit ==
  /\ part \in {"collect", "objects"}
  /\ Init /\ ObjectsInit
  /\ part # "collect" => cast = TwoComposers /\ ~vaultOnly
  /\ part # "objects" => plan = ThreeUploads

FilesNext ==
  \/ part = "collect" /\ Next        /\ UNCHANGED <<part, objectVars>>
  \/ part = "objects" /\ ObjectsNext /\ UNCHANGED <<part, vars>>

FilesSpec == FilesInit /\ [][FilesNext]_<<part, vars, objectVars>>

=============================================================================
