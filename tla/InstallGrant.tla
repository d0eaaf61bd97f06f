---------------------------- MODULE InstallGrant ----------------------------
(***************************************************************************)
(* What the server promises about permissions, without tables, steps or     *)
(* messages.  A grant lets one machine be installed once: it is opened for  *)
(* a host, spent when the answer file is given away, bound to one device,   *)
(* and lets that device work for a span at a time.  A span cannot be        *)
(* recalled, so no grant of the host is opened before the last one is over. *)
(***************************************************************************)
EXTENDS Integers

CONSTANTS
    Hosts, Grants, Keys,
    NoHost, NoKey,
    Span            \* for how long a device may work on without asking again: a Nat

VARIABLES clock, grant

vars == <<clock, grant>>

Phase == {"none", "open", "spent", "won", "over"}

Grant == [host: Hosts \cup {NoHost}, phase: Phase,
          device: Keys \cup {NoKey},    \* the device bound to a spent grant
          stop: BOOLEAN,                \* a spent grant has been revoked
          until: Nat]                   \* the device may work until then

Unused == [host |-> NoHost, phase |-> "none", device |-> NoKey, stop |-> FALSE, until |-> 0]

Opened(h) ==
    [host |-> h, phase |-> "open", device |-> NoKey, stop |-> FALSE, until |-> 0]

\* What the grant becomes once it is won or over.
Ended(g, phase, until) ==
    [host |-> g.host, phase |-> phase, device |-> NoKey, stop |-> FALSE, until |-> until]

Init == clock \in Nat /\ grant = [g \in Grants |-> Unused]

Becomes(g, new) == grant' = [grant EXCEPT ![g] = new] /\ UNCHANGED clock

\* A grant has a claim to its host's disk, now or because its device still works.
Claims(g) == grant[g].phase \in {"open", "spent"} \/ grant[g].until > clock

Open(g, h) ==
    /\ grant[g].phase = "none"
    /\ \A o \in Grants : Claims(o) => grant[o].host # h
    /\ Becomes(g, Opened(h))

\* An open grant is used up by one answer.
Spend(g) ==
    /\ grant[g].phase = "open"
    /\ Becomes(g, [grant[g] EXCEPT !.phase = "spent"])

\* Open grants may be withdrawn or lapse, several at once.
Withdraw(G) ==
    /\ \A g \in G : grant[g].phase = "open"
    /\ grant' = [g \in Grants |-> IF g \in G THEN Ended(grant[g], "over", grant[g].until)
                                  ELSE grant[g]]
    /\ UNCHANGED clock

\* The first device is bound, and no other.
Bind(g, k) ==
    /\ grant[g].phase = "spent" /\ ~grant[g].stop /\ grant[g].device = NoKey
    /\ Becomes(g, [grant[g] EXCEPT !.device = k])

Works(g) == grant[g].phase = "spent" /\ ~grant[g].stop /\ grant[g].device # NoKey

Extend(g) ==
    /\ Works(g)
    /\ Becomes(g, [grant[g] EXCEPT !.until = clock + Span])

Stop(g) ==
    /\ grant[g].phase = "spent" /\ ~grant[g].stop
    /\ Becomes(g, [grant[g] EXCEPT !.stop = TRUE])

\* The device is done, or stops as it was told: it works no longer.
Win(g) == Works(g) /\ Becomes(g, Ended(grant[g], "won", 0))

StandDown(g) ==
    /\ grant[g].phase = "spent" /\ grant[g].stop /\ grant[g].device # NoKey
    /\ Becomes(g, Ended(grant[g], "over", 0))

\* Without the device's word the grant ends only when its span is over.
Close(g) ==
    /\ grant[g].phase = "spent" /\ grant[g].until <= clock
    /\ Becomes(g, Ended(grant[g], "over", grant[g].until))

Pass == clock' \in Nat /\ clock' > clock /\ UNCHANGED grant

Next ==
    \/ \E g \in Grants :
          \/ \E h \in Hosts : Open(g, h)
          \/ Spend(g) \/ Extend(g) \/ Stop(g) \/ Win(g) \/ StandDown(g) \/ Close(g)
          \/ \E k \in Keys : Bind(g, k)
    \/ \E G \in SUBSET Grants : Withdraw(G)
    \/ Pass

Spec == Init /\ [][Next]_vars

TypeOK == clock \in Nat /\ grant \in [Grants -> Grant]

\* One grant at most has a claim to a host: where the disk may be erased for one, no
\* device works under another.
Exclusive ==
    \A g, o \in Grants : Claims(g) /\ Claims(o) /\ grant[g].host = grant[o].host => g = o
=============================================================================
