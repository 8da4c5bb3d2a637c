--------------------------- MODULE Delivery_proofs ---------------------------
(***************************************************************************)
(* Proofs about the command line, the SocketConsumer and their composition:*)
(* whatever options are given, how many and in whatever order, main and    *)
(* the SocketConsumer get what they rely on; a consumer keeps its sockets, *)
(* for any destinations and any packets; main uses both as their own       *)
(* modules say, so what is proved of them holds of the composition.        *)
(***************************************************************************)
EXTENDS Delivery, SequenceTheorems, WellFoundedInduction, TLAPS

-----------------------------------------------------------------------------
(* The command line *)

(* The destinations an option yields are destinations. *)
LEMMA DestinationType ==
    ASSUME NEW ip \in Addresses \cup {FallbackIp}, NEW number \in Numbers
    PROVE  Destination(ip, number) \in OptionIpPort
<1>1. number \in Nat /\ ShortRange \in Nat \ {0}
  BY CommandLineAssumption
<1>2. number % ShortRange \in 0 .. ShortRange - 1
  BY <1>1
<1> QED
  BY <1>2 DEF Destination, OptionIpPort

(* A --drlink yields two destinations. *)
LEMMA DrLinkPairType ==
    ASSUME NEW text1 \in Addresses \cup {Malformed}, NEW text2 \in Addresses \cup {Malformed},
           NEW number1 \in Numbers, NEW number2 \in Numbers
    PROVE  /\ DrLinkPair(text1, number1, text2, number2) \in Seq(OptionIpPort)
           /\ Len(DrLinkPair(text1, number1, text2, number2)) = 2
<1> DEFINE ip1 == ParsedIp(text1, FallbackIp)
           ip2 == ParsedIp(text2, ip1)
           first  == Destination(ip1, number1)
           second == Destination(ip2, number2)
<1>1. ip1 \in Addresses \cup {FallbackIp}
  BY DEF ParsedIp
<1>2. ip2 \in Addresses \cup {FallbackIp}
  BY <1>1 DEF ParsedIp
<1>3. first \in OptionIpPort /\ second \in OptionIpPort
  <2> HIDE DEF ip1, ip2
  <2> QED
    BY <1>1, <1>2, DestinationType
<1>4. DrLinkPair(text1, number1, text2, number2) = << first, second >>
  BY DEF DrLinkPair
<1> HIDE DEF first, second
<1> QED
  BY <1>3, <1>4

(* What a --drlink does to the options. *)
LEMMA WithDrLinkEffect ==
    ASSUME NEW o \in Options, NEW pair \in Seq(OptionIpPort), Len(pair) = 2
    PROVE  /\ WithDrLink(o, pair) \in Options
           /\ WithDrLink(o, pair).dstIpPortVector = WithDrLink(o, pair).drlinkIpPortVector
           /\ WithDrLink(o, pair).drlinkIpPortVector # << >>
<1> DEFINE drlinks == o.drlinkIpPortVector \o pair
<1>1. o.drlinkIpPortVector \in Seq(OptionIpPort)
  BY DEF Options
<1>2. drlinks \in Seq(OptionIpPort) /\ drlinks # << >>
  <2>1. drlinks \in Seq(OptionIpPort) /\ Len(drlinks) = Len(o.drlinkIpPortVector) + Len(pair)
    BY <1>1, Zenon, ConcatProperties
  <2>2. Len(o.drlinkIpPortVector) \in Nat
    BY <1>1
  <2> HIDE DEF drlinks
  <2> QED
    BY <2>1, <2>2
<1>3. WithDrLink(o, pair) = [o EXCEPT !.drlinkIpPortVector = drlinks,
                                      !.dstIpPortVector = drlinks,
                                      !.traffic = "DrLink", !.output = "Socket"]
  BY DEF WithDrLink, SocketsAfterDrLink
<1> HIDE DEF drlinks
<1>4. /\ WithDrLink(o, pair).drlinkIpPortVector = drlinks
      /\ WithDrLink(o, pair).dstIpPortVector = drlinks
  BY <1>3 DEF Options
<1>5. WithDrLink(o, pair) \in Options
  BY <1>2, <1>3 DEF Options
<1> QED
  BY <1>2, <1>4, <1>5

(* What a --socket does to the options. *)
LEMMA WithSocketEffect ==
    ASSUME NEW o \in Options, NEW destination \in OptionIpPort
    PROVE  /\ WithSocket(o, destination) \in Options
           /\ WithSocket(o, destination).drlinkIpPortVector = o.drlinkIpPortVector
           /\ WithSocket(o, destination).traffic = o.traffic
           /\ WithSocket(o, destination).dstIpPortVector = Append(o.dstIpPortVector, destination)
<1> DEFINE extended == Append(o.dstIpPortVector, destination)
<1>1. extended \in Seq(OptionIpPort)
  <2>1. o.dstIpPortVector \in Seq(OptionIpPort)
    BY DEF Options
  <2> QED
    BY <2>1, AppendProperties
<1>2. WithSocket(o, destination) = [o EXCEPT !.dstIpPortVector = extended, !.output = "Socket"]
  BY DEF WithSocket
<1> HIDE DEF extended
<1>3. /\ WithSocket(o, destination) \in Options
      /\ WithSocket(o, destination).drlinkIpPortVector = o.drlinkIpPortVector
      /\ WithSocket(o, destination).traffic = o.traffic
      /\ WithSocket(o, destination).dstIpPortVector = extended
  BY <1>1, <1>2 DEF Options
<1> QED
  BY <1>3 DEF extended

(* The options start out with their types. *)
LEMMA OptionsInitType == ParseInit => OptionsTypeOK
<1>1. << >> \in Seq(OptionIpPort)
  BY EmptySeq
<1>2. Defaults \in Options
  BY <1>1 DEF Defaults, Options
<1>3. 0 \in 0 .. MaxOptions
  BY CommandLineAssumption
<1> QED
  BY <1>2, <1>3 DEF ParseInit, OptionsTypeOK

(* An option leaves the two vectors alone, or relates them anew.              *)
Unrelated(o, p) ==
    /\ p.drlinkIpPortVector = o.drlinkIpPortVector
    /\ p.dstIpPortVector = o.dstIpPortVector
    /\ p.traffic \in {o.traffic, "Mirror"}
    /\ p.output \in {o.output, "Pcap"}

(* What the proofs need to know about one step. *)
LEMMA VectorsStep ==
    ASSUME OptionsTypeOK, [ParseNext]_optionVars
    PROVE  /\ options' \in Options
           /\ \/ Unrelated(options, options')
              \/ /\ options'.dstIpPortVector = options'.drlinkIpPortVector
                 /\ options'.drlinkIpPortVector # << >>
              \/ /\ options'.drlinkIpPortVector = options.drlinkIpPortVector
                 /\ options'.traffic = options.traffic
                 /\ \E destination \in OptionIpPort :
                       options'.dstIpPortVector = Append(options.dstIpPortVector, destination)
<1>1. options \in Options
  BY DEF OptionsTypeOK
<1>2. CASE DrLink
  <2>1. PICK text1 \in Addresses \cup {Malformed}, text2 \in Addresses \cup {Malformed},
             number1 \in Numbers, number2 \in Numbers :
          options' = WithDrLink(options, DrLinkPair(text1, number1, text2, number2))
    BY <1>2 DEF DrLink
  <2> QED
    BY <1>1, <2>1, DrLinkPairType, WithDrLinkEffect
<1>3. CASE Socket
  <2>1. PICK text \in Addresses \cup {Malformed}, number \in Numbers :
          options' = WithSocket(options, Destination(ParsedIp(text, FallbackIp), number))
    BY <1>3 DEF Socket
  <2>2. Destination(ParsedIp(text, FallbackIp), number) \in OptionIpPort
    BY DestinationType DEF ParsedIp
  <2> QED
    BY <1>1, <2>1, <2>2, WithSocketEffect
<1>4. CASE WebConfig \/ Mirror \/ Pcap
  BY <1>1, <1>4 DEF WebConfig, Mirror, Pcap, Options, Unrelated
<1>5. CASE Secure \/ UseDb \/ UseS3
  BY <1>1, <1>5 DEF Secure, UseDb, UseS3, Options, Unrelated
<1>6. CASE SetNumber
  <2>1. PICK number \in Numbers :
           \/ options' = [options EXCEPT !.numberOfCalls = number]
           \/ options' = [options EXCEPT !.callDuration = number]
           \/ options' = [options EXCEPT !.simulationDuration = number]
    BY <1>6 DEF SetNumber
  <2>2. number \in Nat
    BY CommandLineAssumption
  <2>3. CASE options' = [options EXCEPT !.numberOfCalls = number]
    BY <1>1, <2>2, <2>3 DEF Options, Unrelated
  <2>4. CASE options' = [options EXCEPT !.callDuration = number]
    BY <1>1, <2>2, <2>4 DEF Options, Unrelated
  <2>5. CASE options' = [options EXCEPT !.simulationDuration = number]
    BY <1>1, <2>2, <2>5 DEF Options, Unrelated
  <2> QED
    BY <2>1, <2>3, <2>4, <2>5
<1>7. CASE Start
  <2>1. PICK text \in Addresses \cup {Malformed} :
           options' = [options EXCEPT !.startIp = ParsedIp(text, @)]
    BY <1>7 DEF Start
  <2>2. ParsedIp(text, options.startIp) \in Addresses \cup {DefaultStart}
    BY <1>1 DEF ParsedIp, Options
  <2> QED
    BY <1>1, <2>1, <2>2 DEF Options, Unrelated
<1>8. CASE DbPath \/ StackName
  BY <1>1, <1>8 DEF DbPath, StackName, Options, Unrelated
<1>9. CASE UnknownOption \/ EndOfArguments \/ Done \/ UNCHANGED optionVars
  <2>1. options' = options
    BY <1>9 DEF UnknownOption, EndOfArguments, Done, optionVars
  <2> QED
    BY <1>1, <2>1 DEF Unrelated
<1> QED
  BY <1>2, <1>3, <1>4, <1>5, <1>6, <1>7, <1>8, <1>9 DEF ParseNext

(* The other variables keep their types, too. *)
LEMMA OptionsNextType == OptionsTypeOK /\ [ParseNext]_optionVars => OptionsTypeOK'
<1> SUFFICES ASSUME OptionsTypeOK, [ParseNext]_optionVars PROVE OptionsTypeOK'
  OBVIOUS
<1>1. walk' \in {"parsing", "parsed", "exited"}
  BY DEF OptionsTypeOK, ParseNext, Meets, NextOption, WebConfig, SetNumber, DrLink, Mirror,
    Pcap, Socket, Start, DbPath,
         Secure, UseDb, UseS3, StackName, UnknownOption, EndOfArguments, Done, optionVars
<1>2. met' \in 0 .. MaxOptions
  <2>1. met \in 0 .. MaxOptions /\ MaxOptions \in Nat
    BY CommandLineAssumption DEF OptionsTypeOK
  <2>2. met' = met \/ (met < MaxOptions /\ met' = met + 1)
    BY DEF ParseNext, Meets, NextOption, WebConfig, SetNumber, DrLink, Mirror, Pcap, Socket,
           Start, DbPath, Secure, UseDb, UseS3, StackName, UnknownOption, EndOfArguments,
           Done, optionVars
  <2> QED
    BY <2>1, <2>2
<1> QED
  BY <1>1, <1>2, VectorsStep DEF OptionsTypeOK

(* Every option has its type. *)
THEOREM OptionsCorrect == ParseSpec => []OptionsTypeOK
<1>1. OptionsTypeOK /\ [ParseNext]_optionVars => OptionsTypeOK'
  BY OptionsNextType
<1> QED
  BY <1>1, OptionsInitType, PTL DEF ParseSpec

-----------------------------------------------------------------------------
(* DrLinkReachable is not inductive: --pcap and --mirror hide what a later    *)
(* --socket or --drlink relies on.  The vectors are related at all times.     *)
VectorsRelated ==
    /\ ToSet(options.drlinkIpPortVector) \subseteq ToSet(options.dstIpPortVector)
    /\ options.traffic = "DrLink" => options.drlinkIpPortVector # << >>
    /\ options.output = "Socket" => options.dstIpPortVector # << >>

(* Appending keeps what was there and leaves nothing empty. *)
LEMMA AppendKeeps ==
    ASSUME NEW S, NEW v \in Seq(S), NEW e \in S
    PROVE  ToSet(v) \subseteq ToSet(Append(v, e)) /\ Append(v, e) # << >>
<1>1. \A i \in DOMAIN v : i \in DOMAIN Append(v, e) /\ Append(v, e)[i] = v[i]
  BY AppendProperties
<1>2. Len(Append(v, e)) # 0
  BY AppendProperties, LenProperties
<1> QED
  BY <1>1, <1>2 DEF ToSet

(* No option breaks the relation of the two vectors. *)
LEMMA VectorsRelatedStep ==
    OptionsTypeOK /\ VectorsRelated /\ [ParseNext]_optionVars => VectorsRelated'
<1> SUFFICES ASSUME OptionsTypeOK, VectorsRelated, [ParseNext]_optionVars PROVE VectorsRelated'
  OBVIOUS
<1>1. CASE Unrelated(options, options')
  BY <1>1 DEF Unrelated, VectorsRelated
<1>2. CASE /\ options'.dstIpPortVector = options'.drlinkIpPortVector
           /\ options'.drlinkIpPortVector # << >>
  BY <1>2 DEF VectorsRelated
<1>3. CASE /\ options'.drlinkIpPortVector = options.drlinkIpPortVector
           /\ options'.traffic = options.traffic
           /\ \E destination \in OptionIpPort :
                 options'.dstIpPortVector = Append(options.dstIpPortVector, destination)
  <2>1. PICK destination \in OptionIpPort :
           options'.dstIpPortVector = Append(options.dstIpPortVector, destination)
    BY <1>3
  <2>2. options.dstIpPortVector \in Seq(OptionIpPort)
    BY DEF OptionsTypeOK, Options
  <2>3. /\ ToSet(options.dstIpPortVector) \subseteq ToSet(options'.dstIpPortVector)
        /\ options'.dstIpPortVector # << >>
    BY <2>1, <2>2, AppendKeeps
  <2> QED
    BY <1>3, <2>3 DEF VectorsRelated
<1> QED
  BY <1>1, <1>2, <1>3, VectorsStep

(* Drlink calls always have a destination, a SocketConsumer always has a      *)
(* socket to open, and it has one for each destination of the drlink calls.   *)
THEOREM DestinationsSet ==
    ParseSpec => [](DrLinkHasDestinations /\ SocketHasDestination /\ DrLinkReachable)
<1>1. ParseInit => VectorsRelated
  <2> SUFFICES ASSUME ParseInit PROVE VectorsRelated
    OBVIOUS
  <2>1. /\ options.drlinkIpPortVector = options.dstIpPortVector
        /\ options.traffic = "Mirror" /\ options.output = "Pcap"
    BY DEF ParseInit, Defaults
  <2> QED
    BY <2>1 DEF VectorsRelated
<1>2. OptionsTypeOK /\ VectorsRelated /\ [ParseNext]_optionVars => VectorsRelated'
  BY VectorsRelatedStep
<1>3. VectorsRelated => DrLinkHasDestinations /\ SocketHasDestination /\ DrLinkReachable
  BY DEF VectorsRelated, DrLinkHasDestinations, SocketHasDestination, DrLinkReachable
<1> QED
  BY <1>1, <1>2, <1>3, OptionsCorrect, PTL DEF ParseSpec

-----------------------------------------------------------------------------
(* The SocketConsumer *)

(* What Append does to the elements. *)
LEMMA AppendElements ==
    ASSUME NEW S, NEW v \in Seq(S), NEW e \in S
    PROVE  /\ Append(v, e) \in Seq(S)
           /\ Len(Append(v, e)) = Len(v) + 1
           /\ \A i \in 1 .. Len(v) : Append(v, e)[i] = v[i]
           /\ Append(v, e)[Len(v) + 1] = e
           /\ ToSet(Append(v, e)) = ToSet(v) \cup {e}
<1>1. /\ Append(v, e) \in Seq(S)
      /\ Len(Append(v, e)) = Len(v) + 1
      /\ \A i \in 1 .. Len(v) : Append(v, e)[i] = v[i]
      /\ Append(v, e)[Len(v) + 1] = e
      /\ DOMAIN v = 1 .. Len(v)
      /\ DOMAIN Append(v, e) = 1 .. Len(v) + 1
      /\ Len(v) \in Nat
  BY AppendProperties
<1>2. ToSet(Append(v, e)) = ToSet(v) \cup {e}
  BY <1>1 DEF ToSet
<1> QED
  BY <1>1, <1>2

(* A nonempty set of natural numbers has a least element. *)
LEMMA LeastElement ==
    ASSUME NEW I \in SUBSET Nat, I # {}
    PROVE  Min(I) \in I
<1> DEFINE R == {ss \in Nat \X Nat : ss[1] < ss[2]}
<1>1. IsWellFoundedOn(R, Nat)
  BY NatLessThanWellFounded DEF OpToRel
<1>2. PICK x \in I : \A y \in I : ~ (<<y, x>> \in R)
  <2> HIDE DEF R
  <2> QED
    BY <1>1, WFMin
<1>3. ASSUME NEW y \in I
      PROVE  x <= y
  <2>1. << y, x >> \in Nat \X Nat /\ ~ (<< y, x >> \in R)
    BY <1>2
  <2>2. << y, x >>[1] = y /\ << y, x >>[2] = x
    OBVIOUS
  <2>3. ~ (y < x)
    BY <2>1, <2>2
  <2>4. x \in Nat /\ y \in Nat
    OBVIOUS
  <2> QED
    BY <2>3, <2>4
<1> QED
  BY <1>3 DEF Min

-----------------------------------------------------------------------------
(* Type correctness *)

(* Before it is constructed the consumer has neither addresses nor packets. *)
NothingYet == pc = "none" => addresses = << >> /\ last.packet = Nowhere

LEMMA NothingYetStep == NothingYet /\ [Next]_vars => NothingYet'
<1> SUFFICES ASSUME NothingYet, [Next]_vars PROVE NothingYet'
  OBVIOUS
<1>1. CASE UNCHANGED vars
  BY <1>1 DEF vars, NothingYet
<1>2. CASE Next
  <2>1. pc' # "none"
    <3>1. ASSUME NEW dstIpPort \in Seq(IpPort), Construct(dstIpPort) PROVE pc' # "none"
      BY <3>1 DEF Construct
    <3>2. CASE Opening \/ Destroy
      BY <3>2 DEF Opening, OpenSocket, SocketFails, OptionFails, AllOpened, NextDestination, Destroy
    <3>3. ASSUME NEW packet \in IpPort, Consume(packet) PROVE pc' # "none"
      BY <3>3 DEF Consume, ConsumeMatched, ConsumePastEnd, ConsumeByFirst, ConsumeFails, SendTo
    <3> QED
      BY <1>2, <3>1, <3>2, <3>3 DEF Next
  <2> QED
    BY <2>1 DEF NothingYet
<1> QED
  BY <1>1, <1>2

LEMMA InitType == Init => TypeOK
<1> SUFFICES ASSUME Init PROVE TypeOK
  OBVIOUS
<1>1. destinations \in Seq(IpPort) /\ Len(destinations) \in Nat
  BY EmptySeq, LenProperties DEF Init
<1>2. addresses \in Seq(IpPort) /\ sockets \in Seq(Descriptors)
  BY EmptySeq DEF Init
<1>3. Len(addresses) = 0 /\ Len(sockets) = 0 /\ DOMAIN addresses = {}
  BY DEF Init
<1>4. last \in Outcome
  BY DEF Init, NotSent, Outcome
<1>5. \A i \in DOMAIN addresses : addresses[i] = destinations[i]
  BY <1>3
<1>6. Len(sockets) <= Len(addresses) /\ Len(addresses) <= Len(destinations)
  BY <1>1, <1>3
<1>7. /\ pc \in {"none", "opening", "serving", "crashed", "destroyed"}
      /\ open \subseteq Descriptors
      /\ cutShort \in BOOLEAN /\ optionRefused \in BOOLEAN
  BY DEF Init
<1> QED
  BY <1>1, <1>2, <1>4, <1>5, <1>6, <1>7, Zenon DEF TypeOK

(* The constructor's loop. *)
LEMMA NextDestinationType ==
    ASSUME TypeOK, NextDestination
    PROVE  /\ addresses' \in Seq(IpPort)
           /\ Len(addresses') = Len(addresses) + 1
           /\ Len(addresses') <= Len(destinations)
           /\ \A i \in DOMAIN addresses' : addresses'[i] = destinations[i]
           /\ last' = last /\ destinations' = destinations
<1>1. destinations \in Seq(IpPort) /\ Len(destinations) \in Nat
  BY LenProperties DEF TypeOK
<1>2. addresses \in Seq(IpPort) /\ Len(addresses) \in Nat /\ DOMAIN addresses = 1 .. Len(addresses)
  BY LenProperties DEF TypeOK
<1> DEFINE e == destinations[Len(addresses) + 1]
<1>3. e \in IpPort /\ addresses' = Append(addresses, e) /\ Len(addresses) < Len(destinations)
  BY <1>1, <1>2, ElementOfSeq DEF NextDestination
<1> HIDE DEF e
<1>4. /\ addresses' \in Seq(IpPort)
      /\ Len(addresses') = Len(addresses) + 1
      /\ \A i \in 1 .. Len(addresses) : addresses'[i] = addresses[i]
      /\ addresses'[Len(addresses) + 1] = e
  BY <1>2, <1>3, AppendElements
<1>5. DOMAIN addresses' = 1 .. Len(addresses) + 1
  BY <1>4, LenProperties
<1>6. \A i \in DOMAIN addresses' : addresses'[i] = destinations[i]
  BY <1>2, <1>4, <1>5 DEF TypeOK, e
<1> QED
  BY <1>1, <1>2, <1>3, <1>4, <1>6 DEF NextDestination

(* What a lookup may find. *)
LEMMA FirstMatchFound ==
    ASSUME TypeOK, NEW packet
    PROVE  \/ /\ FirstMatch(packet) = 0
              /\ \A i \in 1 .. Len(addresses) : ~Matches(addresses[i], packet)
           \/ /\ FirstMatch(packet) \in 1 .. Len(addresses)
              /\ Matches(addresses[FirstMatch(packet)], packet)
<1> DEFINE I == {i \in 1 .. Len(addresses) : Matches(addresses[i], packet)}
<1>1. FirstMatch(packet) = IF I # {} THEN Min(I) ELSE 0
  BY DEF FirstMatch, SelectInSeq
<1>2. Len(addresses) \in Nat
  BY LenProperties DEF TypeOK
<1>3. I \in SUBSET Nat
  BY <1>2
<1>4. I # {} => Min(I) \in I
  BY <1>3, LeastElement
<1> QED
  BY <1>1, <1>4

(* The outcomes of a Consume that returns. *)
LEMMA SendToType ==
    ASSUME TypeOK, NEW packet \in IpPort, NEW address \in IpPort \cup {Nowhere},
           NEW socket \in Descriptors \cup {Stray, Nowhere},
           NEW accepted \in BOOLEAN, NEW success \in BOOLEAN,
           last' = [packet |-> packet, to |-> address, by |-> socket,
                    accepted |-> accepted, success |-> success],
           UNCHANGED << destinations, addresses, sockets, open, cutShort, optionRefused >>,
           pc' \in {"serving", "crashed"}
    PROVE  TypeOK'
<1>1. last' \in Outcome
  BY DEF Outcome
<1> QED
  BY <1>1 DEF TypeOK

(* The address of a match, and the first one, are addresses. *)
LEMMA AddressType ==
    ASSUME TypeOK, NEW i \in 1 .. Len(addresses)
    PROVE  addresses[i] \in IpPort /\ i \in DOMAIN destinations
<1>1. addresses \in Seq(IpPort) /\ Len(addresses) \in Nat /\ Len(addresses) <= Len(destinations)
  BY LenProperties DEF TypeOK
<1>2. DOMAIN destinations = 1 .. Len(destinations) /\ Len(destinations) \in Nat
  BY LenProperties DEF TypeOK
<1> QED
  BY <1>1, <1>2, ElementOfSeq

(* Every operation keeps the types. *)
LEMMA NextType == TypeOK /\ NothingYet /\ [Next]_vars => TypeOK'
<1> SUFFICES ASSUME TypeOK, NothingYet, [Next]_vars PROVE TypeOK'
  OBVIOUS
<1>1. /\ Len(sockets) \in Nat /\ sockets \in Seq(Descriptors)
      /\ Len(addresses) \in Nat /\ Len(sockets) <= Len(addresses)
  BY LenProperties DEF TypeOK
<1>2. CASE OpenSocket
  <2>1. PICK socket \in Descriptors : open' = open \cup {socket} /\ sockets' = Append(sockets, socket)
    BY <1>2 DEF OpenSocket
  <2>2. sockets' \in Seq(Descriptors) /\ Len(sockets') = Len(sockets) + 1
    BY <1>1, <2>1, AppendElements
  <2>3. NextDestination /\ UNCHANGED << pc, cutShort, optionRefused >>
    BY <1>2 DEF OpenSocket
  <2>4. Len(sockets') <= Len(addresses')
    BY <1>1, <2>2, <2>3, NextDestinationType
  <2> QED
    BY <2>1, <2>2, <2>3, <2>4, NextDestinationType DEF TypeOK
<1>3. CASE SocketFails \/ OptionFails
  <2>1. NextDestination /\ UNCHANGED << sockets, open >>
    BY <1>3 DEF SocketFails, OptionFails
  <2>2. Len(sockets') <= Len(addresses')
    BY <1>1, <2>1, NextDestinationType
  <2>3. /\ pc' \in {"none", "opening", "serving", "crashed", "destroyed"}
        /\ cutShort' \in BOOLEAN /\ optionRefused' \in BOOLEAN
    BY <1>3 DEF SocketFails, OptionFails, TypeOK
  <2> QED
    BY <2>1, <2>2, <2>3, NextDestinationType DEF TypeOK
<1>4. CASE AllOpened \/ UNCHANGED vars
  BY <1>4 DEF AllOpened, vars, TypeOK
<1>5. ASSUME NEW packet \in IpPort, ConsumeMatched(packet) PROVE TypeOK'
  <2>1. /\ FirstMatch(packet) \in 1 .. Len(sockets)
        /\ SendTo(packet, addresses[FirstMatch(packet)], sockets[FirstMatch(packet)])
    BY <1>5 DEF ConsumeMatched
  <2>2. addresses[FirstMatch(packet)] \in IpPort
    BY <1>1, <2>1, AddressType
  <2>3. sockets[FirstMatch(packet)] \in Descriptors
    BY <1>1, <2>1, ElementOfSeq
  <2> QED
    BY <1>5, <2>1, <2>2, <2>3, SendToType DEF SendTo, Reported, ConsumeMatched
<1>6. ASSUME NEW packet \in IpPort, ConsumePastEnd(packet) PROVE TypeOK'
  <2>1. /\ FirstMatch(packet) > Len(sockets)
        /\ \/ SendTo(packet, addresses[FirstMatch(packet)], Stray)
           \/ /\ pc' = "crashed"
              /\ open' = {}
              /\ UNCHANGED << destinations, addresses, sockets, cutShort, optionRefused, last >>
    BY <1>6 DEF ConsumePastEnd
  <2>2. CASE SendTo(packet, addresses[FirstMatch(packet)], Stray)
    <3>1. FirstMatch(packet) \in 1 .. Len(addresses)
      BY <1>1, <2>1, FirstMatchFound
    <3>2. addresses[FirstMatch(packet)] \in IpPort
      BY <3>1, AddressType
    <3> QED
      BY <1>6, <2>2, <3>2, SendToType DEF SendTo, Reported, ConsumePastEnd
  <2>3. CASE /\ pc' = "crashed" /\ open' = {}
             /\ UNCHANGED << destinations, addresses, sockets, cutShort, optionRefused, last >>
    BY <2>3 DEF TypeOK
  <2> QED
    BY <2>1, <2>2, <2>3
<1>7. ASSUME NEW packet \in IpPort, ConsumeByFirst(packet) PROVE TypeOK'
  <2>1. SendTo(packet, addresses[1], sockets[1])
    BY <1>7 DEF ConsumeByFirst
  <2>2. 1 \in 1 .. Len(addresses) /\ 1 \in 1 .. Len(sockets)
    BY <1>1, <1>7, EmptySeq DEF ConsumeByFirst, TypeOK
  <2>3. addresses[1] \in IpPort /\ sockets[1] \in Descriptors
    BY <1>1, <2>2, AddressType, ElementOfSeq
  <2> QED
    BY <1>7, <2>1, <2>3, SendToType DEF SendTo, Reported, ConsumeByFirst
<1>8. ASSUME NEW packet \in IpPort, ConsumeFails(packet) PROVE TypeOK'
  BY <1>8, SendToType DEF ConsumeFails, NotSent
<1>9. CASE Destroy
  <2>1. sockets' = << >> /\ addresses' = << >> /\ pc' = "destroyed"
    BY <1>9 DEF Destroy
  <2>2. /\ addresses' \in Seq(IpPort) /\ sockets' \in Seq(Descriptors)
        /\ Len(sockets') <= Len(addresses')
        /\ \A i \in DOMAIN addresses' : addresses'[i] = destinations'[i]
    BY <2>1, EmptySeq
  <2>3. Len(addresses') <= Len(destinations)
    BY <2>1, LenProperties DEF TypeOK
  <2> QED
    BY <1>9, <2>1, <2>2, <2>3 DEF Destroy, TypeOK
<1>10. ASSUME NEW dstIpPort \in Seq(IpPort), Construct(dstIpPort) PROVE TypeOK'
  <2>1. addresses = << >>
    BY <1>10 DEF Construct, NothingYet
  <2>2. destinations' \in Seq(IpPort) /\ Len(addresses') <= Len(destinations')
    BY <1>10, <2>1, LenProperties DEF Construct
  <2>3. \A i \in DOMAIN addresses' : addresses'[i] = destinations'[i]
    BY <1>10, <2>1 DEF Construct
  <2> QED
    BY <1>10, <2>2, <2>3 DEF Construct, TypeOK
<1> QED
  BY <1>2, <1>3, <1>4, <1>5, <1>6, <1>7, <1>8, <1>9, <1>10 DEF Next, Opening, Consume

(* The three vectors and the history keep their types. *)
THEOREM TypeCorrect == Spec => [](TypeOK /\ NothingYet)
<1>1. Init => NothingYet
  BY DEF Init, NothingYet, NotSent
<1> QED
  BY <1>1, InitType, NextType, NothingYetStep, PTL DEF Spec

-----------------------------------------------------------------------------
(* Descriptors *)

(* Every step leaves each open descriptor in the vector, once. *)
LEMMA OwnedStep == TypeOK /\ DescriptorsOwned /\ [Next]_vars => DescriptorsOwned'
<1> SUFFICES ASSUME TypeOK, DescriptorsOwned, [Next]_vars, pc' # "crashed"
             PROVE  /\ open' = ToSet(sockets')
                    /\ \A i, j \in DOMAIN sockets' : sockets'[i] = sockets'[j] => i = j
  BY DEF DescriptorsOwned
<1>1. CASE OpenSocket
  <2>1. PICK socket \in Descriptors \ open :
           open' = open \cup {socket} /\ sockets' = Append(sockets, socket)
    BY <1>1 DEF OpenSocket
  <2>2. /\ sockets' \in Seq(Descriptors)
        /\ Len(sockets') = Len(sockets) + 1
        /\ \A i \in 1 .. Len(sockets) : sockets'[i] = sockets[i]
        /\ sockets'[Len(sockets) + 1] = socket
        /\ ToSet(sockets') = ToSet(sockets) \cup {socket}
    BY <2>1, AppendElements DEF TypeOK
  <2>3. /\ open = ToSet(sockets)
        /\ \A i, j \in DOMAIN sockets : sockets[i] = sockets[j] => i = j
    BY <1>1 DEF OpenSocket, NextDestination, DescriptorsOwned
  <2>4. /\ DOMAIN sockets = 1 .. Len(sockets) /\ Len(sockets) \in Nat
        /\ DOMAIN sockets' = 1 .. Len(sockets) + 1
    BY <2>2, LenProperties DEF TypeOK
  <2>5. \A i \in 1 .. Len(sockets) : sockets'[i] # socket
    BY <2>1, <2>2, <2>3, <2>4 DEF ToSet
  <2>6. ASSUME NEW i \in DOMAIN sockets', NEW j \in DOMAIN sockets', sockets'[i] = sockets'[j]
        PROVE  i = j
    BY <2>2, <2>3, <2>4, <2>5, <2>6
  <2> QED
    BY <2>1, <2>2, <2>3, <2>6
<1>2. CASE SocketFails \/ OptionFails \/ AllOpened \/ UNCHANGED vars
  <2>1. pc # "crashed" /\ UNCHANGED << sockets, open >>
    BY <1>2 DEF SocketFails, OptionFails, NextDestination, AllOpened, vars
  <2> QED
    BY <2>1 DEF DescriptorsOwned
<1>3. ASSUME NEW packet, Consume(packet)
      PROVE  /\ open' = ToSet(sockets')
             /\ \A i, j \in DOMAIN sockets' : sockets'[i] = sockets'[j] => i = j
  <2>1. pc # "crashed" /\ UNCHANGED << sockets, open >>
    BY <1>3 DEF Consume, ConsumeMatched, ConsumePastEnd, ConsumeByFirst, ConsumeFails, SendTo
  <2> QED
    BY <2>1 DEF DescriptorsOwned
<1>5. ASSUME NEW dstIpPort, Construct(dstIpPort)
      PROVE  /\ open' = ToSet(sockets')
             /\ \A i, j \in DOMAIN sockets' : sockets'[i] = sockets'[j] => i = j
  BY <1>5 DEF Construct, DescriptorsOwned
<1>4. CASE Destroy
  <2>1. open' = {} /\ sockets' = << >>
    BY <1>4 DEF Destroy, DescriptorsOwned
  <2> QED
    BY <2>1 DEF ToSet
<1> QED
  BY <1>1, <1>2, <1>3, <1>4, <1>5 DEF Next, Opening

(* Whichever kernel calls fail, no descriptor leaks and none is closed twice. *)
THEOREM NoDescriptorLeaks == Spec => []DescriptorsOwned
<1>1. Init => DescriptorsOwned
  <2> SUFFICES ASSUME Init PROVE DescriptorsOwned
    OBVIOUS
  <2>1. open = {} /\ sockets = << >>
    BY DEF Init
  <2> QED
    BY <2>1 DEF DescriptorsOwned, ToSet
<1> QED
  BY <1>1, OwnedStep, TypeCorrect, PTL DEF Spec

-----------------------------------------------------------------------------
(* Receivers *)

(* RightReceiver needs to know that only an early return of the constructor   *)
(* leaves destinations without an address.                                    *)
AllAddressed == pc = "serving" /\ ~cutShort => Len(addresses) = Len(destinations)

(* No step loses an address while packets are consumed. *)
LEMMA AllAddressedStep == TypeOK /\ AllAddressed /\ [Next]_vars => AllAddressed'
<1> SUFFICES ASSUME TypeOK, AllAddressed, [Next]_vars PROVE AllAddressed'
  OBVIOUS
<1>1. CASE OpenSocket \/ OptionFails \/ SocketFails
  BY <1>1 DEF OpenSocket, OptionFails, SocketFails, NextDestination, AllAddressed
<1>2. CASE AllOpened \/ Destroy
  BY <1>2 DEF AllOpened, Destroy, AllAddressed
<1>3. ASSUME NEW packet, Consume(packet) PROVE AllAddressed'
  BY <1>3 DEF Consume, ConsumeMatched, ConsumePastEnd, ConsumeByFirst, ConsumeFails, SendTo,
              AllAddressed
<1>4. CASE UNCHANGED vars
  BY <1>4 DEF vars, AllAddressed
<1>5. ASSUME NEW dstIpPort, Construct(dstIpPort) PROVE AllAddressed'
  BY <1>5 DEF Construct, AllAddressed
<1> QED
  BY <1>1, <1>2, <1>3, <1>4, <1>5 DEF Next, Opening

(* A match is the packet's own destination. *)
LEMMA MatchIsOwn ==
    ASSUME NEW address \in IpPort, NEW packet \in IpPort, Matches(address, packet)
    PROVE  address = packet
  BY DEF IpPort, Matches

(* With all addresses stored, a packet for a destination finds a match. *)
LEMMA OwnIsFound ==
    ASSUME TypeOK, Len(addresses) = Len(destinations), NEW packet \in ToSet(destinations)
    PROVE  FirstMatch(packet) # 0
<1>1. PICK i \in DOMAIN destinations : destinations[i] = packet
  BY DEF ToSet
<1>2. i \in 1 .. Len(addresses) /\ i \in DOMAIN addresses
  <2>1. DOMAIN destinations = 1 .. Len(destinations) /\ DOMAIN addresses = 1 .. Len(addresses)
    BY LenProperties DEF TypeOK
  <2> QED
    BY <2>1
<1>3. Matches(addresses[i], packet)
  BY <1>1, <1>2 DEF TypeOK, Matches
<1>4. 0 \notin 1 .. Len(addresses)
  BY LenProperties DEF TypeOK
<1> QED
  BY <1>2, <1>3, <1>4, FirstMatchFound

(* No step sends a packet astray. *)
LEMMA ReceiverStep ==
    TypeOK /\ NothingYet /\ AllAddressed /\ RightReceiver /\ [Next]_vars => RightReceiver'
<1> SUFFICES ASSUME TypeOK, NothingYet, AllAddressed, RightReceiver, [Next]_vars
             PROVE  RightReceiver'
  OBVIOUS
<1>1. CASE Opening \/ Destroy \/ UNCHANGED vars
  <2>1. UNCHANGED << last, destinations >> /\ (cutShort => cutShort')
    BY <1>1 DEF Opening, OpenSocket, SocketFails, OptionFails, NextDestination, AllOpened, Destroy,
                vars
  <2> QED
    BY <2>1 DEF RightReceiver
<1>2. ASSUME NEW packet \in IpPort, ConsumeMatched(packet) \/ ConsumePastEnd(packet)
      PROVE  RightReceiver'
  <2>1. CASE UNCHANGED << last, destinations, cutShort >>
    BY <2>1 DEF RightReceiver
  <2>2. CASE /\ \E socket : SendTo(packet, addresses[FirstMatch(packet)], socket)
             /\ FirstMatch(packet) # 0
    <3>1. /\ FirstMatch(packet) \in 1 .. Len(addresses)
          /\ Matches(addresses[FirstMatch(packet)], packet)
      BY <2>2, FirstMatchFound
    <3>2. addresses[FirstMatch(packet)] \in IpPort
      BY <3>1, AddressType
    <3>3. addresses[FirstMatch(packet)] = packet
      BY <3>1, <3>2, MatchIsOwn
    <3>4. last'.to = last'.packet
      BY <2>2, <3>3 DEF SendTo
    <3> QED
      BY <3>4 DEF RightReceiver
  <2>3. Len(sockets) \in Nat
    BY LenProperties DEF TypeOK
  <2> QED
    BY <1>2, <2>1, <2>2, <2>3 DEF ConsumeMatched, ConsumePastEnd
<1>3. ASSUME NEW packet \in IpPort, ConsumeByFirst(packet) PROVE RightReceiver'
  <2>1. FirstMatch(packet) = 0 /\ SendTo(packet, addresses[1], sockets[1])
    BY <1>3 DEF ConsumeByFirst
  <2>2. /\ last'.packet = packet /\ UNCHANGED << cutShort, destinations >>
        /\ pc = "serving"
    BY <1>3, <2>1 DEF SendTo, ConsumeByFirst
  <2>3. packet \in ToSet(destinations) => cutShort
    BY <2>1, <2>2, OwnIsFound DEF AllAddressed, TypeOK
  <2> QED
    BY <2>2, <2>3 DEF RightReceiver
<1>4. ASSUME NEW packet \in IpPort, ConsumeFails(packet) PROVE RightReceiver'
  <2>1. /\ FirstMatch(packet) = 0 /\ pc = "serving"
        /\ last'.packet = packet /\ UNCHANGED << cutShort, destinations >>
    BY <1>4 DEF ConsumeFails, NotSent
  <2>2. packet \in ToSet(destinations) => cutShort
    BY <2>1, OwnIsFound DEF AllAddressed, TypeOK
  <2> QED
    BY <2>1, <2>2 DEF RightReceiver
<1>5. ASSUME NEW dstIpPort \in Seq(IpPort), Construct(dstIpPort) PROVE RightReceiver'
  <2>1. last'.packet = Nowhere /\ destinations' = dstIpPort
    BY <1>5 DEF Construct, NothingYet
  <2>2. Nowhere \notin ToSet(dstIpPort)
    <3>1. ToSet(dstIpPort) \subseteq IpPort
      BY ElementOfSeq, LenProperties DEF ToSet
    <3> QED
      BY <3>1, SocketConsumerAssumption
  <2> QED
    BY <2>1, <2>2 DEF RightReceiver
<1> QED
  BY <1>1, <1>2, <1>3, <1>4, <1>5 DEF Next, Consume

(* Unless socket() failed, every packet for a configured destination is sent  *)
(* to that destination.                                                       *)
THEOREM NothingMisdirected == Spec => []RightReceiver
<1>1. Init => AllAddressed /\ RightReceiver
  BY DEF Init, AllAddressed, RightReceiver, NotSent, ToSet
<1> QED
  BY <1>1, AllAddressedStep, ReceiverStep, TypeCorrect, PTL DEF Spec

-----------------------------------------------------------------------------
(* Sockets *)

(* Only a socket that was not got, or was closed for want of its option,      *)
(* leaves an address without one.                                             *)
AllConnected ==
    pc \in {"opening", "serving"} /\ ~cutShort /\ ~optionRefused => Len(sockets) = Len(addresses)

(* Where no socket is missing, what was sent was sent over a socket of the    *)
(* consumer, and Consume has said what became of it.                          *)
SentByOwn ==
    /\ last.to # Nowhere /\ ~cutShort =>
          last.by \in Descriptors \/ (optionRefused /\ last.by = Stray)
    /\ last.success <=> last.accepted

(* The constructor's loop keeps a socket for each address. *)
LEMMA AllConnectedStep == TypeOK /\ NothingYet /\ AllConnected /\ [Next]_vars => AllConnected'
<1> SUFFICES ASSUME TypeOK, NothingYet, AllConnected, [Next]_vars PROVE AllConnected'
  OBVIOUS
<1>1. CASE OpenSocket
  <2>1. PICK socket \in Descriptors : sockets' = Append(sockets, socket)
    BY <1>1 DEF OpenSocket
  <2>2. Len(sockets') = Len(sockets) + 1
    BY <2>1, AppendElements DEF TypeOK
  <2>3. Len(addresses') = Len(addresses) + 1
    BY <1>1, NextDestinationType DEF OpenSocket
  <2>4. pc = "opening" /\ UNCHANGED << cutShort, optionRefused >>
    BY <1>1 DEF OpenSocket, NextDestination
  <2> QED
    BY <2>2, <2>3, <2>4 DEF AllConnected
<1>2. CASE SocketFails \/ OptionFails
  BY <1>2 DEF SocketFails, OptionFails, AllConnected
<1>3. CASE AllOpened \/ Destroy
  BY <1>3 DEF AllOpened, Destroy, AllConnected
<1>4. ASSUME NEW packet, Consume(packet) PROVE AllConnected'
  BY <1>4 DEF Consume, ConsumeMatched, ConsumePastEnd, ConsumeByFirst, ConsumeFails, SendTo,
              AllConnected
<1>5. CASE UNCHANGED vars
  BY <1>5 DEF vars, AllConnected
<1>6. ASSUME NEW dstIpPort, Construct(dstIpPort) PROVE AllConnected'
  <2>1. Len(addresses') = 0 /\ Len(sockets') = 0
    <3>1. addresses = << >> /\ Len(sockets) <= Len(addresses)
      BY <1>6 DEF Construct, NothingYet, TypeOK
    <3>2. Len(sockets) \in Nat
      BY LenProperties DEF TypeOK
    <3> QED
      BY <1>6, <3>1, <3>2 DEF Construct
  <2> QED
    BY <2>1 DEF AllConnected
<1> QED
  BY <1>1, <1>2, <1>3, <1>4, <1>5, <1>6 DEF Next, Opening

(* No packet is sent over anything else, and nothing is claimed of it wrongly. *)
LEMMA SentByOwnStep ==
    TypeOK /\ AllConnected /\ SentByOwn /\ [Next]_vars => SentByOwn'
<1> SUFFICES ASSUME TypeOK, AllConnected, SentByOwn, [Next]_vars PROVE SentByOwn'
  OBVIOUS
<1>1. ASSUME last' = last, cutShort => cutShort', optionRefused => optionRefused'
      PROVE  SentByOwn'
  BY <1>1 DEF SentByOwn
<1>2. CASE Opening \/ Destroy \/ UNCHANGED vars
  BY <1>1, <1>2 DEF Opening, OpenSocket, SocketFails, OptionFails, NextDestination, AllOpened,
                    Destroy, vars
<1>3. ASSUME NEW packet, NEW address, NEW socket, SendTo(packet, address, socket),
             ~cutShort => socket \in Descriptors \/ (optionRefused /\ socket = Stray)
      PROVE  SentByOwn'
  BY <1>3 DEF SendTo, Reported, SentByOwn
<1>4. ASSUME NEW packet \in IpPort, Consume(packet) PROVE SentByOwn'
  <2>1. /\ Len(sockets) \in Nat /\ Len(addresses) \in Nat
        /\ \A i \in 1 .. Len(sockets) : sockets[i] \in Descriptors
    BY LenProperties, ElementOfSeq DEF TypeOK
  <2>2. CASE ConsumeMatched(packet)
    BY <1>3, <2>1, <2>2 DEF ConsumeMatched
  <2>3. CASE ConsumePastEnd(packet)
    <3>1. CASE SendTo(packet, addresses[FirstMatch(packet)], Stray)
      <4>1. FirstMatch(packet) <= Len(addresses)
        BY <2>1, FirstMatchFound
      <4>2. FirstMatch(packet) > Len(sockets) /\ pc = "serving"
        BY <2>3 DEF ConsumePastEnd
      <4>3. Len(sockets) # Len(addresses)
        <5>1. FirstMatch(packet) \in Nat
          BY <2>1, FirstMatchFound
        <5> QED
          BY <2>1, <4>1, <4>2, <5>1
      <4>4. cutShort \/ optionRefused
        BY <4>2, <4>3 DEF AllConnected
      <4> QED
        BY <1>3, <3>1, <4>4
    <3>2. CASE UNCHANGED << cutShort, optionRefused, last >>
      BY <1>1, <3>2
    <3> QED
      BY <2>3, <3>1, <3>2 DEF ConsumePastEnd
  <2>4. CASE ConsumeByFirst(packet)
    <3>1. 1 \in 1 .. Len(sockets)
      BY <2>1, <2>4, EmptySeq DEF ConsumeByFirst, TypeOK
    <3> QED
      BY <1>3, <2>1, <2>4, <3>1 DEF ConsumeByFirst
  <2>5. CASE ConsumeFails(packet)
    BY <2>5 DEF ConsumeFails, NotSent, SentByOwn
  <2> QED
    BY <1>4, <2>2, <2>3, <2>4, <2>5 DEF Consume
<1>5. ASSUME NEW dstIpPort, Construct(dstIpPort) PROVE SentByOwn'
  BY <1>1, <1>5 DEF Construct
<1> QED
  BY <1>2, <1>4, <1>5 DEF Next

(* A consumer whose sockets all got their option sends over these alone, and  *)
(* in any case Consume returns whether the kernel took the packet.            *)
THEOREM SendsBySockets == Spec => []SentByOwn
<1>1. Init => AllConnected /\ SentByOwn
  BY DEF Init, AllConnected, SentByOwn, NotSent
<1> QED
  BY <1>1, AllConnectedStep, SentByOwnStep, TypeCorrect, PTL DEF Spec

-----------------------------------------------------------------------------
(* The composition *)

(* A destination of the command line is one of the SocketConsumer. *)
LEMMA OptionDestinations == OptionIpPort \subseteq IpPort
<1>1. 0 .. ShortRange - 1 \subseteq Nat
  BY CommandLineAssumption
<1>2. Addresses \cup {FallbackIp} \subseteq Nat
  BY DeliveryAssumption
<1> QED
  BY <1>1, <1>2 DEF OptionIpPort, IpPort

(* So are those of a vector. *)
LEMMA OptionVectors ==
    ASSUME NEW v \in Seq(OptionIpPort)
    PROVE  v \in Seq(IpPort) /\ ToSet(v) \subseteq IpPort
<1>1. \A i \in 1 .. Len(v) : v[i] \in IpPort
  BY OptionDestinations, ElementOfSeq
<1>2. v \in Seq(IpPort)
  BY <1>1, LenProperties, SeqDef
<1> QED
  BY <1>1, <1>2, LenProperties DEF ToSet

(* Every step is one of the walk over the options, or leaves it alone. *)
LEMMA StepOfParser == [DeliveryNext]_deliveryVars => [ParseNext]_optionVars
  BY DEF DeliveryNext, Parse, CreateConsumer, Use, StepLeg, DestroyConsumer, Over, deliveryVars

(* Every step is one of the consumer, or leaves it alone. *)
LEMMA StepOfConsumer ==
    ASSUME OptionsTypeOK, [DeliveryNext]_deliveryVars
    PROVE  [Next]_vars
<1>1. CASE Parse \/ Over \/ UNCHANGED deliveryVars
  BY <1>1 DEF Parse, Over, deliveryVars
<1>2. CASE CreateConsumer
  <2>1. options.dstIpPortVector \in Seq(IpPort)
    BY OptionVectors DEF OptionsTypeOK, Options
  <2> QED
    BY <1>2, <2>1 DEF CreateConsumer, Next
<1>3. CASE Use \/ DestroyConsumer
  BY <1>3 DEF Use, DestroyConsumer, Next
<1>4. CASE StepLeg
  <2>1. LegDestinations \subseteq IpPort
    BY OptionVectors, DeliveryAssumption DEF OptionsTypeOK, Options, LegDestinations
  <2> QED
    BY <1>4, <2>1 DEF StepLeg, Next
<1> QED
  BY <1>1, <1>2, <1>3, <1>4 DEF DeliveryNext

(* main parses its options as CommandLine says. *)
THEOREM ImplementsCommandLine == DeliverySpec => ParseSpec
<1>1. DeliveryInit => ParseInit
  BY DEF DeliveryInit
<1> QED
  BY <1>1, StepOfParser, PTL DEF DeliverySpec, ParseSpec

(* main and its calls use the consumer as SocketConsumer expects it. *)
THEOREM ImplementsSocketConsumer == DeliverySpec => Spec
<1>1. DeliveryInit => Init
  BY DEF DeliveryInit
<1>2. OptionsTypeOK /\ [DeliveryNext]_deliveryVars => [Next]_vars
  BY StepOfConsumer
<1> QED
  BY <1>1, <1>2, ImplementsCommandLine, OptionsCorrect, PTL DEF DeliverySpec, Spec

-----------------------------------------------------------------------------
(* What the parts have to agree on: the consumer has the destinations of the  *)
(* options, which do not change any more, and has got packets for them only.  *)
Agreed ==
    /\ pc # "none" => walk = "parsed" /\ destinations = options.dstIpPortVector
    /\ pc # "none" => options.output = "Socket"
    /\ last.packet # Nowhere => last.packet \in LegDestinations

(* Nothing happens to the consumer before it is there. *)
LEMMA AgreedStep == NothingYet /\ Agreed /\ [DeliveryNext]_deliveryVars => Agreed'
<1> SUFFICES ASSUME NothingYet, Agreed, [DeliveryNext]_deliveryVars PROVE Agreed'
  OBVIOUS
<1>1. CASE Parse
  <2>1. CASE walk # "parsing"
    <3>1. UNCHANGED optionVars
      BY <1>1, <2>1 DEF Parse, ParseNext, Meets, NextOption, WebConfig, SetNumber, DrLink, Mirror,
                        Pcap, Socket, Start, DbPath, Secure, UseDb, UseS3, StackName,
                        UnknownOption, EndOfArguments, Done
    <3> QED
      BY <1>1, <3>1 DEF Parse, Agreed, LegDestinations, vars, optionVars
  <2>2. CASE walk = "parsing"
    <3>1. pc = "none" /\ UNCHANGED << pc, last >>
      BY <1>1, <2>2 DEF Parse, Agreed, vars
    <3> QED
      BY <3>1 DEF NothingYet, Agreed
  <2> QED
    BY <2>1, <2>2
<1>2. CASE CreateConsumer
  BY <1>2 DEF CreateConsumer, Construct, NothingYet, Agreed, optionVars
<1>3. CASE Use \/ DestroyConsumer
  <2>1. /\ pc # "none"
        /\ UNCHANGED << walk, options, destinations, last >>
    BY <1>3 DEF Use, DestroyConsumer, Opening, OpenSocket, SocketFails, OptionFails, AllOpened,
                NextDestination, Destroy, optionVars
  <2> QED
    BY <2>1 DEF Agreed, LegDestinations
<1>4. CASE StepLeg
  <2>1. PICK packet \in LegDestinations : Consume(packet)
    BY <1>4 DEF StepLeg
  <2>2. /\ pc # "none"
        /\ UNCHANGED << walk, options, destinations >>
        /\ last' = last \/ last'.packet = packet
    BY <1>4, <2>1 DEF StepLeg, Consume, ConsumeMatched, ConsumePastEnd, ConsumeByFirst,
                      ConsumeFails, NotSent, SendTo, optionVars
  <2> QED
    BY <2>1, <2>2 DEF Agreed, LegDestinations
<1>5. CASE Over \/ UNCHANGED deliveryVars
  BY <1>5 DEF Over, deliveryVars, optionVars, vars, Agreed, LegDestinations
<1> QED
  BY <1>1, <1>2, <1>3, <1>4, <1>5 DEF DeliveryNext

(* Whatever the order of the options, each packet of a drlink leg is sent to  *)
(* the leg's own destination over a socket of the consumer, and Consume says  *)
(* what the kernel made of it, unless the constructor was cut short; only     *)
(* where a socket was closed for want of its option may it be sent over       *)
(* whatever lies past the end of the sockets.                                 *)
THEOREM LegsAreDelivered == DeliverySpec => []LegsDelivered
<1>1. DeliveryInit => Agreed
  BY DEF DeliveryInit, Init, NotSent, Agreed
<1>2. NothingYet /\ Agreed /\ RightReceiver /\ SentByOwn /\ DrLinkReachable => LegsDelivered
  <2> SUFFICES ASSUME NothingYet, Agreed, RightReceiver, SentByOwn, DrLinkReachable,
                      options.traffic = "DrLink", last.packet # Nowhere, ~cutShort
               PROVE  /\ last.to = last.packet
                      /\ last.by \in Descriptors \/ (optionRefused /\ last.by = Stray)
                      /\ last.success <=> last.accepted
    BY DEF LegsDelivered
  <2>1. pc # "none"
    BY DEF NothingYet
  <2>2. last.packet \in ToSet(options.drlinkIpPortVector)
    BY DEF Agreed, LegDestinations
  <2>3. last.packet \in ToSet(destinations)
    BY <2>1, <2>2 DEF Agreed, DrLinkReachable
  <2>4. last.to = last.packet
    BY <2>3 DEF RightReceiver
  <2> QED
    BY <2>4 DEF SentByOwn
<1> QED
  BY <1>1, <1>2, AgreedStep, ImplementsCommandLine, ImplementsSocketConsumer, TypeCorrect,
     NothingMisdirected, SendsBySockets, DestinationsSet, PTL DEF DeliverySpec
=============================================================================
