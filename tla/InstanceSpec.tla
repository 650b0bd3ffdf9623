---------------------------- MODULE InstanceSpec ----------------------------
(***************************************************************************)
(* The settings of an instance and what the programs compute on them.  The *)
(* application's spec has one entry for its instance, with version (type   *)
(* and tier), high availability, point-in-time recovery and flags; the     *)
(* CNRM SQLInstance has these too, and backups and authorized networks.    *)
(* Flags are a function from the names that are listed to "on" or "off".   *)
(***************************************************************************)
EXTENDS Integers, Sequences

ReplicationFlags == {"cloudsql.enable_pglogical", "cloudsql.logical_decoding"}
AuditFlags       == {"cloudsql.enable_pgaudit", "pgaudit.log"}

\* A setting of the environment that is not given.
Unset == "unset"

-----------------------------------------------------------------------------
(* The application's entry *)

\* Everything the application asks for now, but for what the environment gives.
DefineInstance(version, entry) ==
    [entry EXCEPT !.version = IF version = Unset THEN @ ELSE version]

\* isPgAuditFlag is "cloudsql.enable_pgaudit" and every name that begins with "pgaudit.".
HasPgAuditFlags(flags) == DOMAIN flags \cap AuditFlags # {}

\* Mutant: only the flag that loads the library is removed.
StripEnableFlag(flags) ==
    [f \in DOMAIN flags \ {"cloudsql.enable_pgaudit"} |-> flags[f]]

StripPgAuditFlags(flags) == [f \in DOMAIN flags \ AuditFlags |-> flags[f]]

\* The instance of the helper application: as the target is to be, without what does
\* not go together with the migration.
HelperInstance(version, entry) ==
    [DefineInstance(version, entry) EXCEPT
        !.ha = FALSE, !.pitr = FALSE, !.flags = StripPgAuditFlags(@)]

-----------------------------------------------------------------------------
(* The SQLInstance *)

\* What naiserator makes of the application's entry: backups are always on.
Created(entry) ==
    [version |-> entry.version, ha |-> entry.ha, pitr |-> entry.pitr, backup |-> TRUE,
     flags |-> entry.flags, nets |-> {}]

\* Naiserator applies the entry to an instance that exists: what the entry does not
\* mention stays as the instance has it.
Applied(entry, res) ==
    [Created(entry) EXCEPT
        !.flags = [f \in DOMAIN entry.flags \cup DOMAIN res.flags |->
                     IF f \in DOMAIN entry.flags THEN entry.flags[f] ELSE res.flags[f]],
        !.nets = res.nets]

\* Mutant: "true" instead of what Cloud SQL calls it.
SetFlagTrue(flags, name) ==
    [f \in DOMAIN flags \cup {name} |-> IF f \in DOMAIN flags THEN flags[f] ELSE "true"]

\* findFlag returns the address of its loop variable, so that setFlag changes a copy of a
\* flag that is there.
SetFlag(flags, name) ==
    [f \in DOMAIN flags \cup {name} |-> IF f \in DOMAIN flags THEN flags[f] ELSE "on"]

\* An address is allowed once, under the name it was first given.
AppendAuthNetIfNotExists(nets, net) ==
    IF \E n \in nets : n.value = net.value THEN nets ELSE nets \cup {net}

(***************************************************************************)
(* Removed is a network whose name is a prefix of "migrator:", where the   *)
(* networks the migrator added have that as a prefix of their name.  An    *)
(* empty name is a prefix of everything.                                   *)
(***************************************************************************)
RemoveMigrationAuthNetwork(nets) == {n \in nets : n.name # ""}

\* Each round appends to the list of the instance, which is still empty: the last of the
\* outgoing addresses is kept.
ResolveOutgoingIps(addresses) == SubSeq(addresses, Len(addresses), Len(addresses))

\* PrepareSourceInstance
SourcePrepared(res, net) ==
    [res EXCEPT
        !.nets = AppendAuthNetIfNotExists(@, net),
        !.flags = SetFlag(SetFlag(@, "cloudsql.enable_pglogical"), "cloudsql.logical_decoding")]

\* PrepareTargetInstance
TargetPrepared(res, net) ==
    [res EXCEPT
        !.backup = FALSE, !.pitr = FALSE, !.ha = FALSE,
        !.flags = StripPgAuditFlags(@),
        !.nets = AppendAuthNetIfNotExists(@, net)]

Protection(res) == <<res.ha, res.backup, res.pitr>>

\* UpdateTargetInstanceAfterPromotion
ProtectedAs(source, target) ==
    [target EXCEPT !.ha = source.ha, !.backup = source.backup, !.pitr = source.pitr]
=============================================================================
