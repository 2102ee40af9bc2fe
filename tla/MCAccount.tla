------------------------------- MODULE MCAccount ------------------------------
(***************************************************************************)
(* The account repository, beside a provider holding what nobody declares: *)
(* workers and the bucket they bind, a server and the address it owns, and *)
(* snapshots a backup command creates, claims, deletes and unclaims.       *)
(***************************************************************************)
EXTENDS DeclApply, TLC

CONSTANTS
  SetNames,    \* the declaration sets the account repository may hold
  WorldNames,  \* the live states to start from
  Refused      \* what the writer refuses

Worker   == "test-worker/web"
Cron     == "test-worker/cron"
Bucket   == "test-bucket/files"
Server   == "test-server/old"
Ipv4     == "test-address/old"
Snapshot == "test-snapshot/monday"
Reserved == "test-bucket/reserved"
Kept     == "test-bucket/kept"

MCResources     == {Worker, Cron, Bucket, Server, Ipv4, Snapshot, Reserved, Kept}
MCResourceTypes == {"test-worker", "test-bucket", "test-server", "test-address",
                    "test-snapshot"}
MCTypeOf ==
  (Worker :> "test-worker") @@ (Cron :> "test-worker") @@ (Bucket :> "test-bucket")
    @@ (Reserved :> "test-bucket") @@ (Kept :> "test-bucket") @@ (Server :> "test-server")
    @@ (Ipv4 :> "test-address") @@ (Snapshot :> "test-snapshot")
MCNameOrder ==
  (Ipv4 :> 1) @@ (Bucket :> 2) @@ (Reserved :> 3) @@ (Server :> 4)
    @@ (Kept :> 8) @@ (Snapshot :> 5) @@ (Cron :> 6) @@ (Worker :> 7)

\* A bucket is of a later stage than the workers binding it, so by stage alone
\* it would be deleted first.
MCStage ==
  ("test-worker" :> 20) @@ ("test-bucket" :> 30) @@ ("test-server" :> 40)
    @@ ("test-address" :> 50) @@ ("test-snapshot" :> 60)
MCFields      == [t \in MCResourceTypes |-> IF t = "test-server" THEN {"labels"} ELSE {}]
MCCollections == [t \in MCResourceTypes |-> <<>>]
MCOwnerOf     == [r \in MCResources |-> IF r = Ipv4 THEN Server ELSE ""]

\* The workers use each other, and one of them the bucket.
MCUsersOf ==
  (Bucket :> {Worker}) @@ (Worker :> {Cron}) @@ (Cron :> {Worker})
    @@ [r \in {Server, Ipv4, Snapshot, Reserved, Kept} |-> {}]

Nothing == [f \in {} |-> {}]
Bare    == [fields |-> Nothing, children |-> Nothing]
OldServer == [fields |-> "labels" :> Literal("old"), children |-> Nothing]

MCSets ==
  {IF n = "server"
   THEN [resources |-> Server :> [fields |-> "labels" :> Literal("kept"),
                                  children |-> Nothing, unmanaged |-> {}],
         slots |-> {}]
   ELSE [resources |-> Nothing, slots |-> {}] : n \in SetNames}

BackupClaim  == [res |-> Snapshot, project |-> "", creator |-> "backup"]
ProjectClaim == [res |-> Reserved, project |-> "shop", creator |-> ""]

World(resources, claim) ==
  [live |-> [r \in resources |-> IF r = Server THEN OldServer ELSE Bare],
   exposed |-> Nothing, claims |-> claim]

\* A project's claim may come before its resource; a creator's may be stale.
MCWorlds ==
  {CASE w = "leftovers" -> World({Worker, Bucket, Kept, Server, Ipv4}, {BackupClaim, ProjectClaim})
     [] w = "mutual"    -> World({Worker, Cron}, {})
     [] w = "orphan"    -> World({Ipv4}, {})
     [] w = "snapshot"  -> World({Server, Snapshot, Reserved}, {BackupClaim, ProjectClaim})
     : w \in WorldNames}
MCCreators == {[name |-> "backup", res |-> Snapshot]}
MCUnsupported == {<<"delete", r, "">> : r \in Refused}
===============================================================================
