-------------------------------- MODULE MCLoad ---------------------------------
(***************************************************************************)
(* DeclLoad with values: a zone, and three services that derive records or *)
(* the name servers of it, giving way to one another.                      *)
(***************************************************************************)
EXTENDS DeclLoad, TLC

ZoneEx == "zone/ex"
MailEx == "mail/ex"
RelayEx == "relay/ex"
CdnEx == "cdn/ex"
LoadResources == {ZoneEx, MailEx, RelayEx, CdnEx}
LoadTypes == {"zone", "mail", "relay", "cdn"}
LoadTypeOf == (ZoneEx :> "zone") @@ (MailEx :> "mail") @@ (RelayEx :> "relay") @@ (CdnEx :> "cdn")
OnZones(v, none) == [t \in LoadTypes |-> IF t = "zone" THEN v ELSE none]

\* Records of the zone, by name and content, and by label where they have neither.
ScalarOf(v) == [kind |-> "literal", of |-> v, after |-> {}]
AddressOf(x) == [kind |-> "reference", of |-> x, after |-> {}]
RecordNamed(n, content, ttl) == [name |-> ScalarOf(n), content |-> content, ttl |-> ScalarOf(ttl)]
DkimRecord(ttl) == RecordNamed("dkim", ScalarOf("key"), ttl)
Labelled == [label |-> ScalarOf("l"), ttl |-> ScalarOf("300")]

File(fields, children, unmanaged) ==
  [fields |-> fields, children |-> children, unmanaged |-> unmanaged]
ZoneFile(fields, records, unmanaged) == File(fields, "record" :> records, unmanaged)
LeftTo(match) == [col |-> "record", match |-> match]
Ns == "ns" :> ScalarOf("ours")
ZoneFiles ==
  {ZoneFile(<<>>, {Labelled}, {}), ZoneFile(Ns, {}, {}),
   ZoneFile(Ns, {RecordNamed("www", AddressOf("cdn/ex/address"), "300")}, {}),
   ZoneFile(Ns, {DkimRecord("60")}, {}), ZoneFile(Ns, {DkimRecord("60"), DkimRecord("300")}, {}),
   ZoneFile(Ns, {}, {LeftTo("name" :> {"dmarc"})}), ZoneFile(Ns, {DkimRecord("60")}, {LeftTo("ttl" :> {"60"})}),
   ZoneFile(Ns, {}, {LeftTo("ttl" :> {"60"})}), ZoneFile(Ns, {}, {LeftTo("color" :> {"red"})})}

\* The services: what one derives is what its plan says.
ServiceFile(plan) == File("plan" :> ScalarOf(plan), <<>>, {})
SlotFor(n, match, yields, gives) ==
  [name |-> n, target |-> ZoneEx, field |-> "", col |-> "record", match |-> match,
   yields |-> yields, reads |-> ZoneEx, gives |-> gives]
FieldSlotFor(n) ==
  [SlotFor(n, <<>>, {}, {}) EXCEPT !.field = "ns", !.col = ""]
Named(names) == "name" :> names
DmarcRecord == RecordNamed("dmarc", ScalarOf("key"), "300")
Plans ==
  (MailEx :> {"dkim", "mail records"}) @@ (RelayEx :> {"dkim after mail", "ttl", "labels"})
    @@ (CdnEx :> {"dmarc", "dmarc after mail", "name servers"})
SlotsOfPlan ==
  [p \in UNION {Plans[r] : r \in DOMAIN Plans} |->
     CASE p = "dkim"             -> {SlotFor(p, Named({"dkim"}), {}, {DkimRecord("300")})}
       [] p = "mail records"     -> {SlotFor(p, Named({"dkim", "dmarc"}), {"cdn"}, {DkimRecord("300"), DmarcRecord})}
       [] p = "dkim after mail"  -> {SlotFor(p, Named({"dkim"}), {"mail"}, {DkimRecord("300")})}
       [] p = "ttl"              -> {SlotFor(p, "ttl" :> {"300"}, {}, {DkimRecord("300")})}
       [] p = "labels"           -> {SlotFor(p, <<>>, {}, {Labelled}), FieldSlotFor(p)}
       [] p = "dmarc"            -> {SlotFor(p, Named({"dmarc"}), {}, {DmarcRecord})}
       [] p = "dmarc after mail" -> {SlotFor(p, Named({"dmarc"}), {"mail"}, {DmarcRecord})}
       [] p = "name servers"     -> {FieldSlotFor(p)}]
LoadSlotsGiven(r, file) == IF r = ZoneEx THEN {} ELSE SlotsOfPlan[file.fields["plan"].of]
LoadWritten ==
  [r \in LoadResources |-> IF r = ZoneEx THEN ZoneFiles ELSE {ServiceFile(p) : p \in Plans[r]}]

LoadNameOrder == [r \in LoadResources |-> 0]
LoadStage == [t \in LoadTypes |-> 0]
LoadFields == OnZones({"ns"}, {"plan"})
LoadCollections == OnZones(<<"record">>, <<>>)
LoadKey == "record" :> {"name", "content"}
LoadFallbackKey == "record" :> {"label"}
LoadItemFields == "record" :> {"ttl"}
LoadExposedBy == "cdn/ex/address" :> CdnEx
LoadDerivable == OnZones({"ns"}, {})

ASSUME DerivationsAreChecked == DerivationsMatch
===============================================================================
