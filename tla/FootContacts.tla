----------------------------- MODULE FootContacts -----------------------------
(***************************************************************************)
(* The foot contacts rl_sim observes come from three places: the contact   *)
(* sensor of each foot (GazeboFootContactCallback), the foot_contacts topic*)
(* (FootContactsCallback), and the height of the foot links (LinkStates-   *)
(* Callback), which only count while neither of the other two has been     *)
(* heard of for 0.25 s.  The callbacks run one after another on the ROS    *)
(* thread; a clock tick is the period of the slowest source.               *)
(***************************************************************************)
EXTENDS Integers, FiniteSets

CONSTANTS
  Feet,
  Window,   \* 0.25 s, in ticks
  MaxAge    \* bound: ticks are counted up to here

ASSUME ContactAssumption ==
  /\ Window \in Nat \ {0} /\ MaxAge \in Nat /\ MaxAge > Window
  /\ Feet \cap {"topic", "links"} = {}

VARIABLES
  contact,      \* obs.foot_contacts
  heard,        \* ticks since last_foot_contacts_topic_time, MaxAge for never
  ground,       \* history: which feet touch the ground
  sensing,      \* the feet whose sensor publishes
  topicAlive,   \* the foot_contacts topic is published
  linksAlive,   \* the link states are published
  due,          \* the sources that have still to publish before the clock ticks
  wrong         \* history: for how many ticks the contact of a foot has been wrong

contactVars == <<contact, heard, ground, sensing, topicAlive, linksAlive, due, wrong>>

Older(n) == IF n < MaxAge THEN n + 1 ELSE n

(* Writes the contact of some feet as a source sees it.                    *)
Observe(feet) ==
  /\ contact' = [f \in Feet |-> IF f \in feet THEN f \in ground ELSE contact[f]]
  /\ wrong' = [f \in Feet |-> IF contact'[f] = (f \in ground) THEN 0 ELSE wrong[f]]
-----------------------------------------------------------------------------
(* The sum of the forces on the foot, of its total wrench or else of its   *)
(* wrenches, is over the threshold.                                        *)
GazeboFootContactCallback(f) ==
  /\ f \in due
  /\ due' = due \ {f}
  /\ Observe({f})
  /\ heard' = 0
  /\ UNCHANGED <<ground, sensing, topicAlive, linksAlive>>

(* A message of another size than four is ignored.                         *)
FootContactsCallback(size) ==
  /\ "topic" \in due
  /\ due' = due \ {"topic"}
  /\ IF size = Cardinality(Feet)
     THEN Observe(Feet) /\ heard' = 0
     ELSE UNCHANGED <<contact, wrong, heard>>
  /\ UNCHANGED <<ground, sensing, topicAlive, linksAlive>>

FallbackAtStart == heard = MaxAge  \* mutant: one contact message ends the fallback for good

Fallback == heard >= Window

(* A foot whose link is not in the message counts as in the air.           *)
LinkStatesCallback ==
  /\ "links" \in due
  /\ due' = due \ {"links"}
  /\ IF Fallback THEN Observe(Feet) ELSE UNCHANGED <<contact, wrong>>
  /\ UNCHANGED <<heard, ground, sensing, topicAlive, linksAlive>>
-----------------------------------------------------------------------------
(* The simulation: feet lift and touch down; time passes.                  *)

Sources == sensing \cup (IF topicAlive THEN {"topic"} ELSE {})
                   \cup (IF linksAlive THEN {"links"} ELSE {})

Tick ==
  /\ due = {}
  /\ heard' = Older(heard)
  /\ ground' \in SUBSET Feet
  /\ wrong' = [f \in Feet |-> IF contact[f] = (f \in ground') THEN 0 ELSE Older(wrong[f])]
  /\ due' = Sources
  /\ UNCHANGED <<contact, sensing, topicAlive, linksAlive>>

(* The contact plugin stops or starts, for all feet; so does the topic.    *)
SourcesChange ==
  /\ due = {}
  /\ \/ sensing \in {{}, Feet} /\ sensing' = Feet \ sensing /\ UNCHANGED topicAlive
     \/ topicAlive' = ~topicAlive /\ UNCHANGED sensing
  /\ UNCHANGED <<contact, heard, ground, linksAlive, due, wrong>>
-----------------------------------------------------------------------------
(* InitObservations puts all feet in the air; a sensor may be missing from *)
(* the start (its topic has no publisher).                                 *)
ContactsInit ==
  /\ contact = [f \in Feet |-> FALSE]
  /\ heard = MaxAge /\ ground = {}
  /\ sensing \in SUBSET Feet
  /\ topicAlive \in BOOLEAN /\ linksAlive \in BOOLEAN
  /\ due = {} /\ wrong = [f \in Feet |-> 0]

ContactsNext ==
  \/ \E f \in Feet : GazeboFootContactCallback(f)
  \/ \E size \in {Cardinality(Feet), Cardinality(Feet) + 1} : FootContactsCallback(size)
  \/ LinkStatesCallback \/ Tick \/ SourcesChange

ContactsSpec == ContactsInit /\ [][ContactsNext]_contactVars
-----------------------------------------------------------------------------
ContactsTypeOK ==
  /\ contact \in [Feet -> BOOLEAN]
  /\ heard \in 0..MaxAge
  /\ ground \in SUBSET Feet /\ sensing \in SUBSET Feet
  /\ topicAlive \in BOOLEAN /\ linksAlive \in BOOLEAN
  /\ due \subseteq Feet \cup {"topic", "links"}
  /\ wrong \in [Feet -> 0..MaxAge]

(* However the contact sensors and the topic come and go, no contact stays *)
(* wrong for longer than the 0.25 s in which the link states are ignored,  *)
(* provided these are published and the sensors come and go together: one  *)
(* foot without a sensor is kept wrong for ever by the stamps of the others*)
ContactsCatchUp ==
  linksAlive /\ sensing \in {{}, Feet} => \A f \in Feet : wrong[f] <= Window

ContactsSafe == ContactsTypeOK /\ ContactsCatchUp
=============================================================================
