------------------------------ MODULE ArpCache ------------------------------
(***************************************************************************)
(* The proxy-ARP table (src/arp_cache.c) between its three threads: the    *)
(* receive thread learns the address pair of every ARP frame it delivers,  *)
(* the transmit thread answers ARP requests of the LAN from the table, and *)
(* the control server lists it.  Every call reads the clock BEFORE it      *)
(* takes the table's lock, so a call is two steps: the clock is read, and  *)
(* later the locked section runs with that reading.                        *)
(*                                                                         *)
(* told is a ghost: the pair the link last told us for every address.      *)
(***************************************************************************)
EXTENDS Integers, FiniteSets

CONSTANTS
  Ips, Macs,
  MaxEntries,   \* ARP_CACHE_MAX_ENTRIES
  TTL,          \* ARP_CACHE_TTL_SECS
  DumpMax,      \* ARP_DUMP_MAX
  None,         \* no call under way, no answer
  MaxClock      \* bound: readings of the clock

ASSUME ArpAssumption ==
  /\ MaxEntries \in Nat \ {0}
  /\ TTL \in Nat
  /\ DumpMax \in Nat
  /\ MaxClock \in Nat
  /\ None \notin Ips \cup Macs

VARIABLES
  entries, count,   \* struct arp_cache
  clock,            \* time(NULL)
  learning,         \* the receive thread's call: [ip, mac, now] or None
  asking,           \* the transmit thread's call: [ip, now] or None
  answer,           \* the MAC of the last lookup, None when it found none
  told              \* ghost: [mac, at] of the last frame that named the address

arpVars == <<entries, count, clock, learning, asking, answer, told>>

Slots == 0 .. MaxEntries - 1
Used == 0 .. count - 1

EmptySlot == [ip |-> None, mac |-> None, valid |-> FALSE, seen |-> 0]

\* Mutant: the age check is a second too patient.
Expired_OneLate(i, now) == now - entries[i].seen > TTL + 1

Expired(i, now) == now - entries[i].seen > TTL

\* The entry of an address, whatever its age.
Known(ip) == {i \in Used : entries[i].valid /\ entries[i].ip = ip}

\* What learn() takes for an expired slot.
Reusable(now) == {i \in Used : entries[i].valid /\ Expired(i, now)}

\* Each loop stops at the first slot that fits.
First(S, i) == i \in S /\ \A j \in S : i <= j

HasRoom == count < MaxEntries

-----------------------------------------------------------------------------
ArpInit ==
  /\ entries = [i \in Slots |-> EmptySlot]
  /\ count = 0
  /\ clock = 0
  /\ learning = None
  /\ asking = None
  /\ answer = None
  /\ told = [ip \in Ips |-> [mac |-> None, at |-> 0]]

\* An ARP frame came over the link: arp_learn_from_packet() and the clock.
StartLearn(ip, mac) ==
  /\ learning = None
  /\ learning' = [ip |-> ip, mac |-> mac, now |-> clock]
  /\ UNCHANGED <<entries, count, clock, asking, answer, told>>

Learned ==
  /\ learning' = None
  /\ told' = [told EXCEPT ![learning.ip] = [mac |-> learning.mac, at |-> learning.now]]
  /\ UNCHANGED <<clock, asking, answer>>

\* The slot's new contents; reuse leaves valid alone, it is already set.
Write(i) ==
  entries' = [entries EXCEPT ![i] =
                [ip |-> learning.ip, mac |-> learning.mac,
                 valid |-> TRUE, seen |-> learning.now]]

LearnKnown ==
  /\ learning # None
  /\ \E i \in Known(learning.ip) : First(Known(learning.ip), i) /\ Write(i)
  /\ count' = count
  /\ Learned

LearnReuse ==
  /\ learning # None
  /\ Known(learning.ip) = {}
  /\ \E i \in Reusable(learning.now) : First(Reusable(learning.now), i) /\ Write(i)
  /\ count' = count
  /\ Learned

LearnAppend ==
  /\ learning # None
  /\ Known(learning.ip) = {}
  /\ Reusable(learning.now) = {}
  /\ HasRoom
  /\ Write(count)
  /\ count' = count + 1
  /\ Learned

\* "table full": the pair is ignored.
LearnIgnored ==
  /\ learning # None
  /\ Known(learning.ip) = {}
  /\ Reusable(learning.now) = {}
  /\ ~HasRoom
  /\ UNCHANGED <<entries, count>>
  /\ Learned

-----------------------------------------------------------------------------
\* A host on the LAN asks for an address: try_proxy_arp() and the clock.
StartLookup(ip) ==
  /\ asking = None
  /\ asking' = [ip |-> ip, now |-> clock]
  /\ UNCHANGED <<entries, count, clock, learning, answer, told>>

LookupDone ==
  /\ asking' = None
  /\ UNCHANGED <<count, clock, learning, told>>

LookupMiss ==
  /\ asking # None
  /\ Known(asking.ip) = {}
  /\ answer' = None
  /\ entries' = entries
  /\ LookupDone

LookupHit ==
  /\ asking # None
  /\ \E i \in Known(asking.ip) :
       /\ First(Known(asking.ip), i)
       /\ ~Expired(i, asking.now)
       /\ answer' = entries[i].mac
  /\ entries' = entries
  /\ LookupDone

\* Found, but too old: the slot is invalidated and the request goes to the link.
LookupExpired ==
  /\ asking # None
  /\ \E i \in Known(asking.ip) :
       /\ First(Known(asking.ip), i)
       /\ Expired(i, asking.now)
       /\ entries' = [entries EXCEPT ![i].valid = FALSE]
  /\ answer' = None
  /\ LookupDone

Listable(now) == {j \in Used : entries[j].valid /\ ~Expired(j, now)}

\* arp_cache_dump() for the control server, a pure read: the first DumpMax
\* entries that have not expired.
Dump(now) ==
  {[ip |-> entries[i].ip, mac |-> entries[i].mac] :
     i \in {j \in Listable(now) : Cardinality({k \in Listable(now) : k < j}) < DumpMax}}

\* time(NULL) is the wall clock: it may jump, and be set back.
SetClock ==
  /\ clock' \in 0 .. MaxClock \ {clock}
  /\ UNCHANGED <<entries, count, learning, asking, answer, told>>

ArpNext ==
  \/ \E ip \in Ips, mac \in Macs : StartLearn(ip, mac)
  \/ LearnKnown
  \/ LearnReuse
  \/ LearnAppend
  \/ LearnIgnored
  \/ \E ip \in Ips : StartLookup(ip)
  \/ LookupMiss
  \/ LookupHit
  \/ LookupExpired
  \/ SetClock

ArpSpec == ArpInit /\ [][ArpNext]_arpVars

-----------------------------------------------------------------------------
Pair == [mac : Macs \cup {None}, at : Int]
Entry == [ip : Ips \cup {None}, mac : Macs \cup {None}, valid : BOOLEAN, seen : Int]

\* The table and the calls under way are well formed: in particular the number
\* of used entries never exceeds the array and every valid entry has a real
\* address pair (arp_cache_learn, arp_cache_lookup).
ArpTypeOK ==
  /\ entries \in [Slots -> Entry]
  /\ count \in 0 .. MaxEntries
  /\ clock \in Nat
  /\ learning = None \/ learning \in [ip : Ips, mac : Macs, now : Int]
  /\ asking = None \/ asking \in [ip : Ips, now : Int]
  /\ answer \in Macs \cup {None}
  /\ told \in [Ips -> Pair]
  /\ \A i \in Slots : entries[i].valid => i < count /\ entries[i].ip \in Ips /\ entries[i].mac \in Macs

\* An address has at most one valid entry, however slots were expired and
\* reused: lookup() stops at the first, a second one would hide its update.
UniqueIps ==
  \A i, j \in Used :
    entries[i].valid /\ entries[j].valid /\ entries[i].ip = entries[j].ip => i = j

\* A valid entry holds what the link last told of its address, with its time:
\* neither the reuse of slots nor a full table leaves an older pair behind.
LatestPair ==
  \A i \in Used :
    entries[i].valid => [mac |-> entries[i].mac, at |-> entries[i].seen] = told[entries[i].ip]

\* A step of the transmit thread that answers a request answers with the
\* address last told, told at most TTL before the clock reading of the lookup.
AnswersCurrent ==
  [][asking # None /\ asking' = None /\ answer' # None =>
       /\ answer' = told[asking.ip].mac
       /\ asking.now - told[asking.ip].at <= TTL]_arpVars

\* The control server's list at a clock reading is what a lookup would answer
\* at that reading: each address at most once, with the address last told.
DumpIsLookup ==
  \A d \in Dump(clock) :
    /\ d.mac = told[d.ip].mac
    /\ clock - told[d.ip].at <= TTL
    /\ \A e \in Dump(clock) : e.ip = d.ip => e = d
=============================================================================
