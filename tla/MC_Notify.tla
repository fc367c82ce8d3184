------------------------------- MODULE MC_Notify -------------------------------
(* Three zones: zk, a secondary zone whose primary is r1 and whose         *)
(* AXFR-MASTER-TSIG is k1; zp, a primary zone; zn, not hosted.  r1 is the  *)
(* primary, an autoprimary and in allow-notify-from; r2 is a stranger; px  *)
(* is a trusted notification proxy.  The packets are the NOTIFYs that take *)
(* each branch of processNotify and the bootstrap, and one packet for each *)
(* early return of doQuestion.                                             *)
EXTENDS Notify, TLC

MCInitDomains ==
    [z \in Zones |-> CASE z = "zk" -> [kind |-> "secondary", primaries |-> {"r1"}]
                       [] z = "zp" -> [kind |-> "primary", primaries |-> {}]
                       [] OTHER    -> Unknown]

MCInitMetadata == <<[domain |-> "zk", kind |-> "AXFR-MASTER-TSIG", content |-> "k1"]>>

\* The tsigkeys table: k1 and k2, both hmac-sha256, with their secrets.
MCTSIGKeys ==
    << [name |-> "k1", algorithm |-> "hmac-sha256", secret |-> "s1"],
       [name |-> "k2", algorithm |-> "hmac-sha256", secret |-> "s2"] >>

\* The TSIG a client holding key k sends, and none.
Signed(k) == [key |-> k, alg |-> "hmac-sha256", mac |-> IF k = "k1" THEN "s1" ELSE "s2"]
Unsigned == [key |-> NoKey, alg |-> NoAlgorithm, mac |-> EmptySecret]
\* A TSIG named k1 but made with k2's secret: its MAC does not validate.
WrongSecret == [Signed("k1") EXCEPT !.mac = "s2"]

Clean == [qr |-> FALSE, tc |-> FALSE, edns |-> 0, cookie |-> "valid",
          tkey |-> FALSE, bit8 |-> FALSE, opcode |-> "Notify"]

Pk(zone, remote, sig, tcp, ecs) ==
    Clean @@ sig @@ [zone |-> zone, remote |-> remote, tcp |-> tcp, ecs |-> ecs]

MCNotifies ==
    { Pk("zk", "r1", Signed("k1"), FALSE, NoECS), \* accepted, signed
      Pk("zk", "r1", Unsigned, FALSE, NoECS),     \* accepted, unsigned from allow-notify-from
      Pk("zk", "r2", Unsigned, FALSE, NoECS),     \* stranger, unsigned
      Pk("zk", "r2", Signed("k1"), FALSE, NoECS), \* signed, but not a primary
      Pk("zk", "r1", Signed("k2"), FALSE, NoECS), \* wrong AXFR-MASTER-TSIG key
      Pk("zk", "px", Signed("k1"), FALSE, NoECS), \* through the proxy
      Pk("zp", "r1", Signed("k1"), FALSE, NoECS), \* we are primary
      Pk("zn", "r1", Signed("k1"), TRUE,  NoECS), \* autoprimary over TCP
      Pk("zn", "r1", Signed("k2"), TRUE,  NoECS), \* the same with another key
      Pk("zn", "r1", Signed("k1"), FALSE, NoECS), \* autoprimary over UDP
      Pk("zn", "r1", Unsigned, TRUE,  NoECS),     \* unsigned autoprimary
      Pk("zn", "r2", Signed("k1"), TRUE,  NoECS), \* not an autoprimary
      Pk("zn", "r1", Unsigned, FALSE, NoECS),     \* unsigned autoprimary over UDP
      Pk("zn", "r2", Signed("k1"), FALSE, NoECS), \* not an autoprimary, over UDP
      Pk("zn", "px", Signed("k1"), FALSE, "r1"),  \* autoprimary through the proxy
      Pk("zn", "r1", WrongSecret, TRUE, NoECS),   \* forged TSIG for a new zone
      Pk("zn", "r2", Unsigned, FALSE, NoECS) }    \* stranger, unsigned, new zone

Base == Pk("zk", "r1", Signed("k1"), FALSE, NoECS)

Bad(field, value) == [f \in DOMAIN Base |-> IF f = field THEN value ELSE Base[f]]

MCMalformed ==
    { Bad("qr", TRUE), Bad("tc", TRUE), Bad("edns", 1), Bad("cookie", "malformed"),
      Bad("cookie", "invalid"), Bad("mac", "s2"), Bad("tkey", TRUE), Bad("bit8", TRUE),
      Bad("opcode", "Query"), Bad("opcode", "Status"),
      [Bad("opcode", "Update") EXCEPT !.mac = "s2"] }

MCPackets == MCNotifies \cup MCMalformed

\* A NOTIFY for zk through the proxy, naming k1 with an algorithm the
\* tsigkeys table has no row for, its MAC made with the empty secret:
\* all a sender needs to know is the key's name.
MCForgedPackets == MCPackets \cup { Pk("zk", "px", [key |-> "k1", alg |-> "hmac-md5", mac |-> EmptySecret], FALSE, NoECS) }

Setting(sec, auto, prim, unsNotify, unsAuto, fwd) ==
    [secondary |-> sec, autosecondary |-> auto, primary |-> prim,
     allowUnsignedNotify |-> unsNotify, allowUnsignedAutoprimary |-> unsAuto,
     forwardNotify |-> fwd]

\* A primary that is also an autosecondary and relays NOTIFYs; one that
\* also takes unsigned autoprimaries; one that demands TSIG and hosts no
\* new zones; and one with secondary support and forwarding both off.
MCSettings ==
    { Setting(TRUE,  TRUE,  TRUE,  TRUE,  FALSE, TRUE),
      Setting(TRUE,  TRUE,  FALSE, TRUE,  TRUE,  FALSE),
      Setting(TRUE,  FALSE, FALSE, FALSE, FALSE, FALSE),
      Setting(FALSE, TRUE,  FALSE, TRUE,  TRUE,  FALSE) }
====
