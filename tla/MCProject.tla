------------------------------ MODULE MCProject -------------------------------
(***************************************************************************)
(* A project with a zone holding hand-declared, derived and unmanaged      *)
(* records, a mail domain deriving some of them, a server whose address    *)
(* one of them refers to, and a domain delegated to the zone: the shape of *)
(* the declarations package's own apply tests.                             *)
(***************************************************************************)
EXTENDS DeclApply, TLC

CONSTANTS
  Addresses,    \* the addresses the provider assigns a new server
  SetNames,     \* the declaration sets operators write
  WorldNames,   \* the live states to start from
  Disturbances  \* what may change behind the tool's back

Zone   == "test-zone/ex"
Mail   == "test-mail/ex"
Server == "test-server/web"
Domain == "test-domain/ex"

IPv4        == "test-server/web/ipv4"
Nameservers == "test-zone/ex/nameservers"

MCResources     == {Zone, Mail, Server, Domain}
MCResourceTypes == {"test-zone", "test-mail", "test-server", "test-domain"}
MCTypeOf        == (Zone :> "test-zone") @@ (Mail :> "test-mail")
                     @@ (Server :> "test-server") @@ (Domain :> "test-domain")
MCNameOrder     == (Domain :> 1) @@ (Mail :> 2) @@ (Server :> 3) @@ (Zone :> 4)
MCStage         == ("test-zone" :> 20) @@ ("test-mail" :> 30)
                     @@ ("test-server" :> 40) @@ ("test-domain" :> 50)
MCFields        == ("test-zone" :> {"comment"}) @@ ("test-mail" :> {"plan", "catch_all"})
                     @@ ("test-server" :> {"labels"}) @@ ("test-domain" :> {"nameservers"})
MCCollections   == [t \in MCResourceTypes |-> IF t = "test-zone" THEN <<"record">> ELSE <<>>]
MCKey           == "record" :> {"name", "content"}
MCFallbackKey   == "record" :> {}
MCItemFields    == "record" :> {"ttl"}
MCExposedValues == {IPv4, Nameservers}
MCExposedBy     == (IPv4 :> Server) @@ (Nameservers :> Zone)
MCOwnerOf       == [r \in MCResources |-> ""]
MCUsersOf       == [r \in MCResources |-> {}]

Record(name, content, ttl) ==
  [name |-> Literal(name), content |-> content, ttl |-> Literal(ttl)]

Address(ip)     == Record("www", Literal(ip), "300")
MailRecord(to)  == Record("mx", Literal(to), "300")
Challenge       == Record("_acme", Literal("token"), "60")
Leftover        == Record("old", Literal("gone"), "60")

\* The declarations: of a labelled server, its record naming it, and the rest.
Declare(comment, label, ttl) ==
  [resources |->
     (Zone :> [fields |-> "comment" :> comment,
               children |-> "record" :> {Record("www", Reference(IPv4), ttl)},
               unmanaged |-> {[col |-> "record", match |-> "name" :> {"_acme"}]}])
     @@ (Mail :> [fields |-> "plan" :> Literal("basic"),
                  children |-> NoKey, unmanaged |-> {}])
     @@ (Server :> [fields |-> "labels" :> label,
                    children |-> NoKey, unmanaged |-> {}])
     @@ (Domain :> [fields |-> NoKey, children |-> NoKey, unmanaged |-> {}]),
   slots |->
     {[name |-> "delegation", source |-> Zone, target |-> Domain,
       field |-> "nameservers", col |-> "", match |-> NoKey,
       reads |-> Nameservers, gives |-> {}],
      [name |-> "mail records", source |-> Mail, target |-> Zone,
       field |-> "", col |-> "record", match |-> "name" :> {"mx"},
       reads |-> Mail, gives |-> {MailRecord("mail.test")}]}]

\* In the crossed set the zone waits on the server and the server on the zone.
MCSets ==
  {CASE n = "blue"    -> Declare(Literal("ours"), Literal("blue"), "300")
     [] n = "green"   -> Declare(Literal("ours"), Literal("green"), "600")
     [] n = "crossed" -> Declare(Reference(IPv4), Reference(Nameservers), "300")
     : n \in SetNames}

\* The live states: nothing; everything as declared; everything but the server
\* (whose old record is left); everything but the mail domain, with a record its
\* slot covers and, in one, another nothing declares.
ZoneWith(records) == [fields |-> "comment" :> Literal("ours"), children |-> "record" :> records]
Alone(fields)     == [fields |-> fields, children |-> NoKey]
Rest ==
  (Mail :> Alone("plan" :> Literal("basic")))
    @@ (Server :> Alone("labels" :> Literal("blue")))
    @@ (Domain :> Alone("nameservers" :> Literal("ns.test")))

World(missing, records) ==
  LET all == (Zone :> ZoneWith(records)) @@ Rest
      names == (IPv4 :> Literal("ip0")) @@ (Nameservers :> Literal("ns.test"))
  IN [live |-> Restrict(all, DOMAIN all \ missing),
      exposed |-> Restrict(names, {x \in DOMAIN names : MCExposedBy[x] \notin missing}),
      claims |-> {[res |-> r, project |-> "shop", creator |-> ""] : r \in MCResources}]

MCWorlds ==
  {CASE w = "nothing" -> World(MCResources, {})
     [] w = "everything" -> World({}, {Address("ip0"), MailRecord("mail.test"), Challenge})
     [] w = "no server" -> World({Server}, {Address("ip0"), MailRecord("mail.test"), Challenge})
     [] w = "no mail" -> World({Mail}, {Address("ip0"), MailRecord("moved.test"), Leftover})
     [] w = "mail moved" -> World({Mail}, {Address("ip0"), MailRecord("moved.test")})
     : w \in WorldNames}

MCAssignedValues == (IPv4 :> Addresses) @@ (Nameservers :> {"ns.test"})
MCVanishing      == IF "vanish" \in Disturbances THEN {Server, Mail} ELSE {}
MCStrays ==
  {[res |-> Zone, col |-> "record", item |-> it]
     : it \in (IF "stray" \in Disturbances THEN {Challenge, MailRecord("moved.test")} ELSE {})
              \cup (IF "late" \in Disturbances THEN {MailRecord("late.test")} ELSE {})}
MCFieldDrifts ==
  (IF "field" \in Disturbances
   THEN {[res |-> Domain, field |-> "nameservers", value |-> "ns.other"]} ELSE {})
  \cup (IF "optional" \in Disturbances
        THEN {[res |-> Mail, field |-> "catch_all", value |-> "on"]} ELSE {})
MCReassigned ==
  IF "reassign" \in Disturbances THEN {[name |-> IPv4, value |-> "ip3"]} ELSE {}
MCUnsupported ==
  IF "unsupported" \in Disturbances THEN {<<"delete", Zone, "record">>} ELSE {}

\* Everything that is declared here is compared.
ASSUME EverythingIsCompared == WhatRefersIsCompared

\* And what AppliesLeaveTheRestAlone asks.
ASSUME UnmanagedByKey == UnmanagedMatchesKeys
ASSUME SlotsMatchWhatIsWritten == WhatSlotsMatchIsWritten

\* The one field that may be set and is not declared is the one named so.
ASSUME OnlyTheOptionalFieldIsLeftOut == "optional" \notin Disturbances => FieldsAreAlwaysGiven
===============================================================================
