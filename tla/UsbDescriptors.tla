-------------------------- MODULE UsbDescriptors ---------------------------
(***************************************************************************)
(* From the descriptors of a device to the configuration a caller gets:    *)
(* how the Linux backend splits the descriptors file into configurations   *)
(* (linux_usbfs.c), how the Windows backend caches what the hub tells it   *)
(* (windows_winusb.c), and how descriptor.c parses one of them.            *)
(*                                                                         *)
(* A descriptor is a record: its type, the bLength it states, the bytes it *)
(* really has (n); num is the number of an interface or the value of a     *)
(* configuration, parts its bNumEndpoints or bNumInterfaces, total its     *)
(* wTotalLength.  The device is one of Devices.  What is read of it may    *)
(* lack descriptors the kernel removed (sysfs), or end early, have a hole  *)
(* or state a wrong length (usbfs); a configuration asked of a hub may be  *)
(* missing.  Memory can run out at every allocation of the parser; heap    *)
(* counts the blocks that are not freed.                                   *)
(***************************************************************************)
EXTENDS Integers, Sequences, FiniteSets, SequencesExt, FiniteSetsExt

CONSTANTS
  Devices,   \* sequences of configurations [value, groups]; a group [num, pre, alts] is
             \* the settings of one interface and the association descriptors before
             \* it; a setting is [extra, eps], its class descriptors and, for each
             \* endpoint, the class descriptors after it
  MaxCut     \* bound: bytes missing at the end of a file

ASSUME DevicesAssumption == \A d \in Devices : Len(d) \in 1..2
ASSUME CutAssumption == MaxCut \in Nat

HEADER == 2   \* DESC_HEADER_LENGTH; the LIBUSB_DT_*_SIZE follow
CONFIG == 9
INTERFACE == 9
ENDPOINT == 7
ASSOCIATION == 8
BOS == 5
CAPABILITY == 3

USB_MAXINTERFACES == 32
USB_MAXENDPOINTS  == 32

VARIABLES
  source,     \* "sysfs": a file the kernel checked; "usbfs": a file; "hub", "usbdk": Windows
  request,    \* "index", "value", "active", "iads", "active iads", "bos"
  wanted,     \* the configuration the request is for, 0: the device is unconfigured
  truth,      \* the device; whether the wanted configuration was read undamaged
  file, left, \* the descriptors file not yet split, its bytes
  declared,   \* bNumConfigurations
  configs,    \* priv->config_descriptors: [recs, len]
  active,     \* the active configuration's value as the backend knows it, or -1
  pc,
  recs, size, \* buffer and size of the parser
  skipped,    \* descriptors between begin and buffer
  config,     \* the configuration being filled in
  array,      \* of associations or capabilities: its length, how many are filled
  heap, orphans, \* blocks allocated; of them, those nothing refers to any more
  overread    \* the parser read beyond size

query  == <<source, request, wanted, truth, active>>
split  == <<file, left, declared, configs>>
input  == <<recs, size, skipped>>
memory == <<heap, orphans>>
vars   == <<query, split, pc, input, config, array, memory, overread>>

-----------------------------------------------------------------------------
(* What the device has, laid out as its descriptors.                       *)

Total(s)      == FoldLeft(LAMBDA x, y : x + y, 0, s)
Desc(type, n) == [type |-> type, len |-> n, n |-> n, num |-> 0, parts |-> 0, total |-> 0]
Class(k)      == [j \in 1..k |-> Desc("class", 3)]
Bytes(ds)     == Total([j \in DOMAIN ds |-> ds[j].n])

Endpoints(eps) == FlattenSeq([j \in DOMAIN eps |-> <<Desc("endpoint", ENDPOINT)>> \o Class(eps[j])])

Setting(num, alt) ==
  <<[Desc("interface", INTERFACE) EXCEPT !.num = num, !.parts = Len(alt.eps)]>>
  \o Class(alt.extra) \o Endpoints(alt.eps)

Group(g) == [j \in 1..g.pre |-> Desc("iad", ASSOCIATION)]
            \o FlattenSeq([j \in DOMAIN g.alts |-> Setting(g.num, g.alts[j])])

Layout(c) ==
  LET body == FlattenSeq([j \in DOMAIN c.groups |-> Group(c.groups[j])]) IN
  <<[Desc("config", CONFIG) EXCEPT !.num = c.value, !.parts = Len(c.groups),
                                   !.total = CONFIG + Bytes(body)]>> \o body

Layouts == [c \in UNION {ToSet(d) : d \in Devices} |-> Layout(c)]

(* The same as libusb_config_descriptor.  A class descriptor belongs to    *)
(* what it follows, so the associations before a later interface are the   *)
(* extra of the endpoint or setting before them.                           *)
Trailed(alt, k) ==
  IF alt.eps = <<>> THEN [alt EXCEPT !.extra = @ + k] ELSE [alt EXCEPT !.eps[Len(alt.eps)] = @ + k]

Described(c) ==
  LET Follow(j) == IF j = Len(c.groups) THEN 0 ELSE c.groups[j + 1].pre
      Alts(j) == [c.groups[j].alts EXCEPT ![Len(c.groups[j].alts)] = Trailed(@, Follow(j))]
  IN [ifs   |-> [j \in DOMAIN c.groups |->
                   [alts |-> [k \in DOMAIN c.groups[j].alts |->
                      [num |-> c.groups[j].num] @@ Alts(j)[k]]]],
      extra |-> c.groups[1].pre,
      iads  |-> Total([j \in DOMAIN c.groups |-> c.groups[j].pre])]

Proper(r) == r.type \in {"endpoint", "interface", "config"}

(* What is wrong with a configuration of the file.                         *)
Damages(ds) ==
  [kind : {"none"}, at : {0}] \union [kind : {"excess"}, at : {4}]
  \union [kind : {"cut"}, at : 1..MaxCut]
  \union [kind : {"hole"}, at : 2..Len(ds)]
  \union [kind : {"length"}, at : {j \in 2..Len(ds) : Proper(ds[j]) \/ ds[j].type = "capability"}]
  \union [kind : {"count"}, at : {-1, 1, USB_MAXINTERFACES}]
  \union [kind : {"endpoints"}, at : {j \in 2..Len(ds) : ds[j].type = "interface"}]
  \union [kind : {"header", "type"}, at : {1}]

Damaged(ds, damage) ==
  CASE damage.kind = "excess" -> [ds EXCEPT ![1].total = @ + damage.at]
    [] damage.kind = "count"  -> [ds EXCEPT ![1].parts = @ + damage.at]
    [] damage.kind = "endpoints" -> [ds EXCEPT ![damage.at].parts = USB_MAXENDPOINTS + 1]
    [] damage.kind = "header" -> [ds EXCEPT ![1].len = HEADER]
    [] damage.kind = "type"   -> [ds EXCEPT ![1].type = "zero"]
    [] damage.kind = "hole"   -> LET j == damage.at
                                     rest == Bytes(SubSeq(ds, j, Len(ds))) IN
                                 Append(SubSeq(ds, 1, j - 1), [Desc("zero", rest) EXCEPT !.len = 0])
    [] damage.kind = "length" -> [ds EXCEPT ![damage.at].len = IF Proper(ds[damage.at]) THEN 5 ELSE 2]
    [] OTHER                  -> ds

-----------------------------------------------------------------------------
(* linux_usbfs.c: the file is split into configurations.                   *)

Sysfs == source = "sysfs"
Iads  == request \in {"iads", "active iads"}

Failed == pc' = "failed"
Quit   == pc' = "done"

DropBytes(ds, k) ==
  LET j == Min({i \in 0..Len(ds) : Bytes(SubSeq(ds, 1, i)) >= k} \union {Len(ds)})
  IN SubSeq(ds, j + 1, Len(ds))

(* Mutant: SeekToNextConfig that trusts wTotalLength.                      *)
SeekTotalLength(ds, remaining) == ds[1].total

(* seek_to_next_config: bytes up to the next configuration descriptor, -1  *)
(* when there is none before the file ends.                                *)
SeekToNextConfig(ds, remaining) ==
  LET next == {i \in 2..Len(ds) : ds[i].type = "config"}
      offset == IF next = {} THEN remaining ELSE Bytes(SubSeq(ds, 1, Min(next) - 1))
  IN IF offset + HEADER <= remaining THEN offset ELSE -1

(* parse_config_descriptors: one configuration.                            *)
ParseConfigDescriptors ==
  LET last == Len(configs) + 1 = declared
      length == IF Sysfs
                THEN IF last THEN left ELSE SeekToNextConfig(file, left)
                ELSE Min({file[1].total, left})
  IN /\ pc = "split" /\ Len(configs) < declared
     /\ IF \/ left < CONFIG
           \/ file[1].type # "config" \/ file[1].len < CONFIG \/ file[1].total < CONFIG
           \/ length < 0
        THEN Failed /\ UNCHANGED split
        ELSE /\ configs' = Append(configs, [recs |-> file, len |-> length])
             /\ file' = DropBytes(file, length) /\ left' = left - length
             /\ UNCHANGED <<pc, declared>>
     /\ UNCHANGED <<query, input, config, array, memory, overread>>

Missing    == [recs |-> <<>>, len |-> 0]
Holds(j, value) == configs[j] # Missing /\ configs[j].recs[1].num = value
HasConfig0 == \E j \in DOMAIN configs : Holds(j, 0)

(* The active configuration: an attribute in sysfs, empty when there is    *)
(* none; over usbfs the device is asked, and 0 means unconfigured unless a *)
(* configuration has that value.  (A device that does not answer is taken  *)
(* to run its first configuration: left out.)                              *)
GetActiveConfig ==
  LET answer == IF wanted = 0 THEN 0 ELSE configs[wanted].recs[1].num IN
  /\ pc = "split" /\ Len(configs) = declared
  /\ active' = IF (Sysfs /\ wanted = 0) \/ (~Sysfs /\ answer = 0 /\ ~HasConfig0)
               THEN -1 ELSE answer
  /\ pc' = "get"
  /\ UNCHANGED <<source, request, wanted, truth, split, input, config, array, memory, overread>>

(* windows_winusb.c: each configuration is asked of the hub, first its     *)
(* header and then as much as that counts.  One that cannot be had, or     *)
(* whose length is not what it says, is missing.                           *)
CacheConfigs(d) ==
  LET n == Len(d)
      layouts == [k \in 1..n |-> Layouts[d[k]]]
      value == IF wanted = 0 THEN 0 ELSE d[wanted].value IN
  /\ pc = "read" /\ request # "bos" /\ source = "hub"
  /\ \E damage \in Damages(layouts[n]), missing \in SUBSET (1..n) :
       /\ damage.kind \notin {"excess", "cut", "type"}
       /\ damage.kind \in {"length", "header"} => ~Iads
       /\ n \in missing => damage.kind = "none"
       /\ configs' = [k \in 1..n |->
            LET r == IF k = n THEN Damaged(layouts[k], damage) ELSE layouts[k] IN
            IF k \in missing THEN Missing ELSE [recs |-> r, len |-> r[1].total]]
       /\ truth' = [truth EXCEPT !.intact = /\ wanted \notin missing
                                            /\ wanted < n \/ damage.kind = "none"]
  /\ active' = IF value = 0 THEN -1 ELSE value
  /\ declared' = n /\ pc' = "get"
  /\ UNCHANGED <<source, request, wanted, file, left, input, config, array, memory, overread>>

(* windows_usbdk.c: a device of which a configuration cannot be had is not *)
(* listed, and the active configuration is always the first one.           *)
UsbDkCacheConfigs(d) ==
  /\ pc = "read" /\ request # "bos" /\ source = "usbdk"
  /\ configs' = [k \in DOMAIN d |-> [recs |-> Layouts[d[k]], len |-> Layouts[d[k]][1].total]]
  /\ active' = d[1].value
  /\ declared' = Len(d) /\ pc' = "get"
  /\ UNCHANGED <<source, request, wanted, truth, file, left,
                 input, config, array, memory, overread>>

(* op_get_config_descriptor_by_value: the first that has the value.        *)
ByValue(value) ==
  LET found == {j \in DOMAIN configs : Holds(j, value)}
  IN IF found = {} THEN 0 ELSE Min(found)

(* The backend copies what there is of the len bytes asked for.            *)
Copied(j, len) == IF j = 0 THEN 0 ELSE Min({len, configs[j].len})

(* By index and for the active configuration the header is read first, and *)
(* its wTotalLength says how much to copy; by value the parser works on    *)
(* all that the backend has.                                               *)
Chosen ==
  CASE request = "value" -> ByValue(truth.device[wanted].value)
    [] request \in {"active", "active iads"} -> IF active = -1 THEN 0 ELSE ByValue(active)
    [] OTHER -> wanted

Buffer(j) == IF request = "value" THEN configs[j].len ELSE Copied(j, configs[j].recs[1].total)

GetConfig ==
  LET j == Chosen IN
  /\ pc = "get"
  /\ \/ Copied(j, CONFIG) < CONFIG /\ Failed /\ UNCHANGED input
     \/ /\ Copied(j, CONFIG) = CONFIG
        /\ recs' = configs[j].recs /\ size' = Buffer(j) /\ skipped' = 0
        /\ pc' = IF Iads THEN "count" ELSE "config"
     \/ Copied(j, CONFIG) = CONFIG /\ pc' = "nomem" /\ UNCHANGED input
  /\ UNCHANGED <<query, split, config, array, memory, overread>>

-----------------------------------------------------------------------------
(* descriptor.c: the parser.                                               *)

Header    == Head(recs)
Here(k)   == size >= k
Short(r)  == r.len > size

(* The parser reads k bytes at buffer.                                     *)
Reads(k) == overread' = (overread \/ k > size)

Consume == recs' = Tail(recs) /\ size' = size - Header.len

(* Blocks the configuration refers to, that clear_configuration frees.     *)
One(b) == IF b THEN 1 ELSE 0
OwnedByAlt(a) == One(a.extra > 0) + One(a.array) + Quantify(DOMAIN a.eps, LAMBDA e : a.eps[e] > 0)
OwnedByInterface(i) == One(i.array) + Total([k \in DOMAIN i.alts |-> OwnedByAlt(i.alts[k])])
Owned(c) == One(c.array) + One(c.extra > 0)
            + Total([k \in DOMAIN c.ifs |-> OwnedByInterface(c.ifs[k])])

NoConfig == [ifs |-> <<>>, extra |-> 0, array |-> FALSE, n |-> 0]

(* Mutant: Clear that leaves the interface being parsed alone.             *)
ClearFinished ==
  /\ heap' = heap - Owned([config EXCEPT !.ifs = IF @ = <<>> THEN @ ELSE Front(@)])
  /\ config' = NoConfig

(* clear_interface and clear_configuration                                 *)
Clear == heap' = heap - Owned(config) /\ config' = NoConfig

Abort(why) == Clear /\ pc' = why /\ UNCHANGED <<input, orphans>>
NoMemory   == Abort("nomem")

(* A configuration is given out with the interfaces parsed so far.         *)
Return == Quit /\ UNCHANGED <<input, config, heap, orphans>>

I == Len(config.ifs)               \* the interface being parsed
A == Len(config.ifs[I].alts)       \* its setting being parsed
Alt == config.ifs[I].alts[A]
E == Len(Alt.eps)

ParseConfiguration ==
  /\ pc = "config" /\ Reads(CONFIG)
  /\ IF \/ ~Here(CONFIG) \/ Header.type # "config" \/ Header.len < CONFIG \/ Short(Header)
        \/ Header.parts > USB_MAXINTERFACES
     THEN Abort("failed")
     ELSE \/ NoMemory
          \/ /\ config' = [NoConfig EXCEPT !.array = TRUE, !.n = Header.parts]
             /\ heap' = heap + 1 /\ Consume /\ skipped' = 0
             /\ pc' = "config extra" /\ UNCHANGED orphans
  /\ UNCHANGED <<query, split, array>>

(* Skipping class descriptors: what the loops of the configuration, the    *)
(* interface and the endpoint share.                                       *)
AtExtra(r)   == Here(HEADER) /\ ~Proper(r) /\ r.len >= HEADER /\ ~Short(r)
BadExtra(r)  == Here(HEADER) /\ r.len < HEADER
CutExtra(r)  == Here(HEADER) /\ r.len >= HEADER /\ Short(r)
EndExtra(r)  == Here(HEADER) => r.len >= HEADER /\ ~Short(r) /\ Proper(r)

SkipExtra ==
  /\ pc \in {"config extra", "interface extra", "endpoint extra"}
  /\ pc = "config extra" => I < config.n
  /\ recs # <<>> /\ AtExtra(Header)
  /\ Consume /\ skipped' = skipped + 1 /\ Reads(HEADER)
  /\ UNCHANGED <<query, split, pc, config, array, memory>>

FailExtra ==
  /\ pc \in {"config extra", "interface extra", "endpoint extra"}
  /\ pc = "config extra" => I < config.n
  /\ recs # <<>> /\ BadExtra(Header) /\ Reads(HEADER)
  /\ Abort("failed")
  /\ UNCHANGED <<query, split, array>>

(* The configuration ends where a class descriptor is cut, or has all the  *)
(* interfaces it declares.                                                 *)
EndConfig ==
  /\ pc = "config extra"
  /\ I = config.n \/ (recs # <<>> /\ CutExtra(Header))
  /\ Return
  /\ UNCHANGED <<query, split, array, overread>>

(* The class descriptors before an interface are added to extra.           *)
ConfigExtra ==
  /\ pc = "config extra" /\ I < config.n
  /\ recs = <<>> \/ EndExtra(Header)
  /\ \/ skipped > 0 /\ NoMemory
     \/ /\ config' = [config EXCEPT !.extra = @ + skipped,
                                    !.ifs = Append(@, [alts |-> <<>>, array |-> FALSE])]
        /\ heap' = heap + One(skipped > 0 /\ config.extra = 0)
        /\ skipped' = 0 /\ pc' = "interface" /\ UNCHANGED <<recs, size, orphans>>
  /\ UNCHANGED <<query, split, array, overread>>

(* parse_interface returns.  Without a setting the configuration ends with *)
(* the interfaces before this one, and the memory of its array is lost.    *)
InterfaceDone ==
  IF config.ifs[I].alts # <<>>
  THEN pc' = "config extra" /\ skipped' = 0 /\ UNCHANGED <<recs, size, config, memory>>
  ELSE /\ Quit /\ config' = [config EXCEPT !.ifs = Front(@)]
       /\ orphans' = orphans + One(config.ifs[I].array)
       /\ UNCHANGED <<input, heap>>

NoInterface ==
  /\ pc = "interface" /\ ~Here(INTERFACE)
  /\ InterfaceDone
  /\ UNCHANGED <<query, split, array, overread>>

(* One more element for the array of settings, before it is known whether  *)
(* a setting follows.                                                      *)
ParseInterface ==
  LET grown == [config EXCEPT !.ifs[I].array = TRUE]
      blocks == heap + One(~config.ifs[I].array)
      r == Header
  IN /\ pc = "interface" /\ Here(INTERFACE) /\ Reads(INTERFACE)
     /\ \/ NoMemory
        \/ IF r.type # "interface" \/ (r.len >= INTERFACE /\ Short(r))
           THEN IF config.ifs[I].alts # <<>>
                THEN InterfaceDone
                ELSE /\ Quit /\ config' = [config EXCEPT !.ifs = Front(@)]
                     /\ heap' = blocks /\ orphans' = orphans + 1 /\ UNCHANGED input
           ELSE IF r.len < INTERFACE \/ r.parts > USB_MAXENDPOINTS
           THEN /\ heap' = blocks - Owned(grown) /\ config' = NoConfig
                /\ Failed /\ UNCHANGED <<input, orphans>>
           ELSE /\ config' = [grown EXCEPT !.ifs[I].alts =
                                Append(@, [num |-> r.num, extra |-> 0, array |-> FALSE,
                                           want |-> r.parts, eps |-> <<>>])]
                /\ heap' = blocks /\ Consume /\ skipped' = 0
                /\ pc' = "interface extra" /\ UNCHANGED orphans
     /\ UNCHANGED <<query, split, array>>

(* A class descriptor of the interface is cut: no endpoints, no extra.     *)
CutInterface ==
  /\ pc = "interface extra" /\ recs # <<>> /\ CutExtra(Header)
  /\ config' = [config EXCEPT !.ifs[I].alts[A].want = 0]
  /\ pc' = "config extra" /\ skipped' = 0
  /\ UNCHANGED <<query, split, recs, size, array, memory, overread>>

(* Up to two allocations, each of which can fail.                          *)
InterfaceExtra ==
  LET kept == One(skipped > 0)
      block == One(Alt.want > 0) IN
  /\ pc = "interface extra" /\ (recs = <<>> \/ EndExtra(Header))
  /\ \/ kept = 1 /\ NoMemory
     \/ /\ block = 1
        /\ heap' = heap + kept - Owned([config EXCEPT !.ifs[I].alts[A].extra = skipped])
        /\ config' = NoConfig /\ pc' = "nomem" /\ UNCHANGED <<input, orphans>>
     \/ /\ config' = [config EXCEPT !.ifs[I].alts[A].extra = skipped,
                                    !.ifs[I].alts[A].array = (block = 1)]
        /\ heap' = heap + kept + block
        /\ skipped' = 0 /\ pc' = "endpoint" /\ UNCHANGED <<recs, size, orphans>>
  /\ UNCHANGED <<query, split, array, overread>>

(* Mutant: ParseEndpoint that takes an endpoint descriptor that is cut.    *)
ParseEndpointCut ==
  LET r == Header IN
  /\ pc = "endpoint" /\ E < Alt.want
  /\ Reads(IF Here(HEADER) /\ r.type = "endpoint" /\ r.len >= ENDPOINT THEN ENDPOINT ELSE 0)
  /\ IF ~Here(HEADER) \/ (r.type = "endpoint" /\ r.len < ENDPOINT) THEN Abort("failed")
     ELSE IF r.type # "endpoint"
     THEN /\ config' = [config EXCEPT !.ifs[I].alts[A].want = E]
          /\ UNCHANGED <<pc, input, memory>>
     ELSE /\ config' = [config EXCEPT !.ifs[I].alts[A].eps = Append(@, 0)]
          /\ Consume /\ skipped' = 0 /\ pc' = "endpoint extra" /\ UNCHANGED memory
  /\ UNCHANGED <<query, split, array>>

(* parse_endpoint: where no whole endpoint descriptor follows, the setting *)
(* has the endpoints before.                                               *)
ParseEndpoint ==
  LET r == Header IN
  /\ pc = "endpoint" /\ E < Alt.want
  /\ Reads(IF Here(HEADER) /\ r.type = "endpoint" /\ r.len >= ENDPOINT /\ ~Short(r)
           THEN ENDPOINT ELSE 0)
  /\ IF ~Here(HEADER) \/ (r.type = "endpoint" /\ r.len < ENDPOINT) THEN Abort("failed")
     ELSE IF r.type # "endpoint" \/ Short(r)
     THEN /\ config' = [config EXCEPT !.ifs[I].alts[A].want = E]
          /\ UNCHANGED <<pc, input, memory>>
     ELSE /\ config' = [config EXCEPT !.ifs[I].alts[A].eps = Append(@, 0)]
          /\ Consume /\ skipped' = 0 /\ pc' = "endpoint extra" /\ UNCHANGED memory
  /\ UNCHANGED <<query, split, array>>

(* The class descriptors of an endpoint; none are kept when one is cut.    *)
EndpointExtra ==
  LET cut == recs # <<>> /\ CutExtra(Header)
      kept == skipped > 0 /\ ~cut
  IN /\ pc = "endpoint extra" /\ (cut \/ recs = <<>> \/ EndExtra(Header))
     /\ \/ kept /\ NoMemory
        \/ /\ config' = IF kept THEN [config EXCEPT !.ifs[I].alts[A].eps[E] = skipped] ELSE config
           /\ heap' = heap + One(kept)
           /\ skipped' = 0 /\ pc' = "endpoint" /\ UNCHANGED <<recs, size, orphans>>
     /\ UNCHANGED <<query, split, array, overread>>

(* Another setting of the same interface, or the next interface.           *)
NextSetting ==
  LET another == /\ Here(INTERFACE) /\ Header.type = "interface"
                 /\ Header.num = config.ifs[I].alts[1].num IN
  /\ pc = "endpoint" /\ E = Alt.want
  /\ pc' = IF another THEN "interface" ELSE "config extra"
  /\ skipped' = 0 /\ Reads(IF Here(INTERFACE) THEN INTERFACE ELSE 0)
  /\ UNCHANGED <<query, split, recs, size, config, array, memory>>

-----------------------------------------------------------------------------
(* parse_iad_array: the associations are counted, then filled in by a      *)
(* second pass that trusts the first.                                      *)
CountIads ==
  LET r == Header IN
  /\ pc = "count"
  /\ IF Here(HEADER)
     THEN /\ Reads(HEADER)
          /\ IF r.len < HEADER \/ Short(r) THEN Failed /\ UNCHANGED <<input, array, heap>>
             ELSE /\ array' = [array EXCEPT !.length = @ + One(r.type = "iad")]
                  /\ Consume /\ skipped' = skipped + 1 /\ UNCHANGED <<pc, heap>>
     ELSE /\ \/ array.length > 0 /\ pc' = "nomem" /\ UNCHANGED <<input, heap>>
             \/ array.length = 0 /\ Quit /\ UNCHANGED <<input, heap>>
             \/ /\ array.length > 0 /\ heap' = heap + 1 /\ pc' = "fill"
                /\ recs' = configs[Chosen].recs /\ size' = Buffer(Chosen)
                /\ UNCHANGED skipped
          /\ UNCHANGED <<array, overread>>
  /\ UNCHANGED <<query, split, config, orphans>>

FillIads ==
  /\ pc = "fill"
  /\ Reads(IF Header.type = "iad" /\ Here(ASSOCIATION) THEN ASSOCIATION ELSE HEADER)
  /\ array' = [array EXCEPT !.filled = @ + One(Header.type = "iad" /\ Here(ASSOCIATION))]
  /\ IF size - Header.len < HEADER THEN Quit /\ UNCHANGED input
                                  ELSE Consume /\ UNCHANGED <<pc, skipped>>
  /\ UNCHANGED <<query, split, config, memory>>

-----------------------------------------------------------------------------
(* libusb_get_bos_descriptor: n capabilities, read with one more transfer  *)
(* of the total length in the header.                                      *)
Bos(n) == <<[Desc("bos", BOS) EXCEPT !.parts = n]>> \o [j \in 1..n |-> Desc("capability", 7)]

ReadBos ==
  /\ pc = "read" /\ request = "bos"
  /\ \E n \in 0..3 : \E damage \in Damages(Bos(n)) :
       /\ recs' = Damaged(Bos(n), damage)
       /\ size' = Max({0, Bytes(recs') - (IF damage.kind = "cut" THEN damage.at ELSE 0)})
       /\ truth' = [truth EXCEPT !.intact = damage.kind \in {"none", "excess"}, !.caps = n]
  /\ pc' = "bos"
  /\ UNCHANGED <<source, request, wanted, active, split, skipped, config, array, memory, overread>>

(* parse_bos                                                               *)
ParseBos ==
  /\ pc = "bos" /\ Reads(IF Here(BOS) THEN BOS ELSE 0)
  /\ IF ~Here(BOS) \/ Header.type # "bos" \/ Header.len < BOS \/ Short(Header)
     THEN Failed /\ UNCHANGED <<input, array, heap>>
     ELSE \/ pc' = "nomem" /\ UNCHANGED <<input, array, heap>>
          \/ /\ array' = [length |-> Header.parts, filled |-> 0] /\ heap' = heap + 1
             /\ Consume /\ pc' = "capabilities" /\ UNCHANGED skipped
  /\ UNCHANGED <<query, split, config, orphans>>

(* The capabilities end where one is missing or cut; libusb_free_bos_      *)
(* descriptor frees those before one that cannot be.                       *)
ParseCapability ==
  LET r == Header
      ends == \/ array.filled = array.length \/ ~Here(CAPABILITY)
              \/ r.type # "capability" \/ (r.len >= CAPABILITY /\ Short(r))
      FreeBos == heap' = heap - 1 - array.filled /\ array' = [length |-> 0, filled |-> 0]
  IN /\ pc = "capabilities"
     /\ Reads(IF array.filled < array.length /\ Here(CAPABILITY) THEN CAPABILITY ELSE 0)
     /\ IF ends THEN Quit /\ array' = [array EXCEPT !.length = array.filled] /\ UNCHANGED <<input, heap>>
        ELSE IF r.len < CAPABILITY THEN Failed /\ FreeBos /\ UNCHANGED input
        ELSE \/ pc' = "nomem" /\ FreeBos /\ UNCHANGED input
             \/ /\ array' = [array EXCEPT !.filled = @ + 1] /\ heap' = heap + 1
                /\ Consume /\ UNCHANGED <<pc, skipped>>
     /\ UNCHANGED <<query, split, config, orphans>>

(* libusb_free_config_descriptor, libusb_free_bos_descriptor and            *)
(* libusb_free_interface_association_descriptors                           *)
Free ==
  /\ pc = "done" /\ pc' = "freed"
  /\ heap' = heap - CASE request = "bos" -> 1 + array.length
                      [] Iads -> One(array.length > 0)
                      [] OTHER -> Owned(config)
  /\ config' = NoConfig /\ array' = [length |-> 0, filled |-> 0]
  /\ UNCHANGED <<query, split, input, orphans, overread>>

-----------------------------------------------------------------------------
(* The descriptors file is read (initialize_device).                       *)
ReadDescriptors(d) ==
  LET n == Len(d)
      layouts == [k \in 1..n |-> Layouts[d[k]]] IN
  /\ pc = "read" /\ request # "bos" /\ source \in {"sysfs", "usbfs"}
  /\ \E damage \in Damages(layouts[n]) :
       LET k == IF damage.kind = "excess" THEN 1 ELSE n      \* the damaged one
           whole == FlattenSeq([layouts EXCEPT ![k] = Damaged(@, damage)])
       IN /\ damage.kind = "excess" => Sysfs
          /\ damage.kind \in {"cut", "hole", "length", "header", "type"} => ~Sysfs
          /\ damage.kind \in {"length", "header"} => ~Iads
          /\ truth' = [truth EXCEPT !.intact = \/ damage.kind \in {"none", "excess"}
                                               \/ wanted < n /\ damage.kind \notin {"cut", "header", "type"}]
          /\ file' = whole
          /\ left' = Max({0, Bytes(whole) - (IF damage.kind = "cut" THEN damage.at ELSE 0)})
  /\ declared' = n /\ pc' = "split"
  /\ UNCHANGED <<source, request, wanted, configs, active, input, config, array, memory, overread>>

Init ==
  /\ \E d \in Devices :
       /\ source \in {"sysfs", "usbfs", "hub", "usbdk"} /\ request \in {"index", "value", "active", "iads", "active iads", "bos"}
       /\ wanted \in (IF request \in {"active", "active iads"} THEN 0 ELSE 1)..Len(d)
       /\ request = "bos" => wanted = 1 /\ source = "usbfs"
       /\ source = "usbdk" /\ request \in {"active", "active iads"} => wanted = 1
       /\ truth = [device |-> d, intact |-> TRUE, caps |-> 0]
  /\ file = <<>> /\ left = 0 /\ declared = 0
  /\ configs = <<>> /\ active = -1 /\ pc = "read"
  /\ recs = <<>> /\ size = 0 /\ skipped = 0 /\ config = NoConfig
  /\ array = [length |-> 0, filled |-> 0]
  /\ heap = 0 /\ orphans = 0 /\ overread = FALSE

Next ==
  \/ ReadDescriptors(truth.device) \/ CacheConfigs(truth.device)
  \/ UsbDkCacheConfigs(truth.device)
  \/ ParseConfigDescriptors \/ GetActiveConfig \/ GetConfig
  \/ ParseConfiguration \/ SkipExtra \/ FailExtra \/ EndConfig \/ ConfigExtra
  \/ NoInterface \/ ParseInterface \/ CutInterface \/ InterfaceExtra
  \/ ParseEndpoint \/ EndpointExtra \/ NextSetting
  \/ CountIads \/ FillIads
  \/ ReadBos \/ ParseBos \/ ParseCapability \/ Free

Spec == Init /\ [][Next]_vars

-----------------------------------------------------------------------------
(* Properties.                                                             *)

Wanted == IF wanted = 0 THEN [ifs |-> <<>>, extra |-> 0, iads |-> 0] ELSE Described(truth.device[wanted])

Parsed == [ifs |-> [j \in DOMAIN config.ifs |->
                      [alts |-> [k \in DOMAIN config.ifs[j].alts |->
                         LET a == config.ifs[j].alts[k] IN
                         [num |-> a.num, extra |-> a.extra, eps |-> a.eps]]]],
           extra |-> config.extra, iads |-> Wanted.iads]

(* The settings p are the first of the settings t; the last may lack       *)
(* endpoints and class descriptors at its end.                             *)
BeginsSettings(p, t) ==
  /\ Len(p) <= Len(t)
  /\ \A k \in DOMAIN p :
       /\ p[k].num = t[k].num /\ p[k].extra <= t[k].extra /\ Len(p[k].eps) <= Len(t[k].eps)
       /\ \A e \in DOMAIN p[k].eps : p[k].eps[e] <= t[k].eps[e]
       /\ k < Len(p) => p[k] = t[k]

BeginsConfig(p, t) ==
  /\ Len(p.ifs) <= Len(t.ifs) /\ p.extra <= t.extra
  /\ \A j \in DOMAIN p.ifs :
       /\ p.ifs[j].alts # <<>> /\ BeginsSettings(p.ifs[j].alts, t.ifs[j].alts)
       /\ j < Len(p.ifs) => p.ifs[j] = t.ifs[j]

(* What a caller is given is what the device has.  By index, by value, as  *)
(* the active one, and as associations, from sysfs, where wTotalLength may *)
(* count what the kernel removed, and from usbfs: a configuration that was *)
(* read whole is given whole, never another one; one that was not is       *)
(* either refused or an initial part of it, with every count backed by     *)
(* that many elements.  An unconfigured device has no active one, but over *)
(* usbfs when a configuration has the value 0, which on Windows is never   *)
(* active.  (Of UsbDk, only devices that run their first configuration are *)
(* asked for the active one: it never says another.)                       *)
TrueToDevice ==
  /\ pc = "done" /\ request # "bos" /\ ~Iads /\ wanted # 0 =>
       /\ BeginsConfig(Parsed, Wanted)
       /\ truth.intact => Parsed = Wanted
       /\ \A j \in DOMAIN config.ifs : \A k \in DOMAIN config.ifs[j].alts :
            config.ifs[j].alts[k].want = Len(config.ifs[j].alts[k].eps)
  /\ pc = "done" /\ Iads /\ wanted # 0 =>
       /\ array.filled <= array.length /\ array.length <= Wanted.iads
       /\ truth.intact => array.filled = Wanted.iads
  /\ pc = "done" /\ request = "bos" =>
       /\ array.length = array.filled /\ array.filled <= truth.caps
       /\ truth.intact => array.filled = truth.caps
  /\ pc = "failed" /\ truth.intact => \/ wanted = 0
                                      \/ /\ source = "hub" /\ request \in {"active", "active iads"}
                                         /\ truth.device[wanted].value = 0
  /\ pc = "done" /\ wanted = 0 => source = "usbfs" /\ HasConfig0

(* The parser never looks at bytes the backend did not deliver, wherever   *)
(* the descriptors end.                                                    *)
InBounds == ~overread

(* A parse that fails, for what it reads or for want of memory at any      *)
(* allocation, frees all it allocated; one that succeeds leaves only what  *)
(* its result refers to, and nothing once that is given back.  Left out:   *)
(* the array of an interface that turned out to have no setting (orphans), *)
(* which parse_configuration loses when it lowers bNumInterfaces.          *)
AllFreed ==
  /\ pc \in {"failed", "nomem"} => heap = 0
  /\ pc = "freed" => heap = orphans
  /\ pc = "done" /\ request # "bos" => heap = Owned(config) + One(array.length > 0) + orphans
  /\ pc = "done" /\ request = "bos" => heap = 1 + array.filled
=============================================================================
