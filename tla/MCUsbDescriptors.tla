-------------------------- MODULE MCUsbDescriptors --------------------------
(* Devices small enough to enumerate: settings with and without endpoints  *)
(* and class descriptors, one or two interfaces, one or two configurations.*)
EXTENDS UsbDescriptors

Bare   == [extra |-> 0, eps |-> <<>>]
Simple == [extra |-> 0, eps |-> <<0>>]
Rich   == [extra |-> 1, eps |-> <<1, 0>>]

MCAlts   == {<<Bare>>, <<Simple>>, <<Rich>>, <<Bare, Rich>>, <<Rich, Simple>>}
MCGroups == [num : {0}, pre : 0..1, alts : MCAlts]
Second   == [num : {1}, pre : 0..1, alts : {<<Simple>>, <<Rich>>, <<Bare, Rich>>}]

Singles == {[value |-> 1, groups |-> <<g>>] : g \in MCGroups}
Pairs  == {[value |-> 1, groups |-> <<g, h>>] : g \in MCGroups, h \in Second}

Other(v) == [value |-> v, groups |-> <<[num |-> 0, pre |-> 1, alts |-> <<Rich>>]>>]

MCDevices == {<<c>> : c \in Singles \union Pairs} \union {<<Other(v), c>> : v \in {0, 2}, c \in Singles}
=============================================================================
