---------------------------- MODULE MCSecureBoot ----------------------------
(* Small instances of SecureBoot for TLC. *)
EXTENDS SecureBoot, TLC

CONSTANTS w1, w2, v1, v2, d1, d2, dx, ds, on, off, out, pk, db

\* The catalog of config/: a Secure Boot profile and a blank one, here with the
\* first one's hash pinned and the second one's left as the placeholder; and one whose
\* file is not in the varstore directory.
MCProfiles == {on, off}
MCProfilesAndOutside == {on, off, out}
MCProfileInfo ==
  on  :> [enabled |-> TRUE,  keys |-> {"PK", "KEK", "db"}, pinned |-> TRUE,  allowed |-> TRUE] @@
  off :> [enabled |-> FALSE, keys |-> {},                  pinned |-> FALSE, allowed |-> TRUE]
MCProfileInfoOutside ==
  MCProfileInfo @@ out :> [enabled |-> TRUE, keys |-> {"PK"}, pinned |-> FALSE, allowed |-> FALSE]
MCProfileMap == "SecureBootEnable:true" :> on @@ "SecureBootEnable:false" :> off
MCProfileMapOutside == MCProfileMap @@ "ResetKeysToDefault" :> out

MCDbOf == [c \in Certs |-> IF c = pk THEN "PK" ELSE "db"]

\* d1 and d2 carry the names of v1's and v2's EFI disks; dx is in a volume group
\* that is not allowlisted, and ds, also v1's, is too small for a varstore.
MCVolumeVm == [d \in Volumes |-> IF d \in {d1, ds} THEN v1 ELSE IF d = d2 THEN v2 ELSE NoVm]

Conf(d, type) == [volume |-> d, efitype |-> type]

\* Each VM's efidisk0 stays as it is.
FixedConfs == [v \in VMs |-> {Conf(IF v = v1 THEN d1 ELSE d2, "4m")}]

\* v1's efidisk0 may be removed, too small, of the old type, outside the allowlist, or name
\* v2's disk.
EditedConfs ==
  [FixedConfs EXCEPT ![v1] = @ \cup {Conf(d1, "2m"), Conf(d2, "4m"), Conf(ds, "4m"), Conf(dx, "4m"), Conf(NoVolume, "4m")}]

Threads == Permutations({w1, w2})
=============================================================================
