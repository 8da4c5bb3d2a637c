---------------------------- MODULE CommandLine ----------------------------
(***************************************************************************)
(* ProgramOptions (src/programoptions.cpp): the constructor walks argv and *)
(* each option overwrites what earlier ones have set, so the outcome       *)
(* depends on their order.  One action per branch of the chain of ifs; the *)
(* arguments are chosen as the walk meets them.                            *)
(*                                                                         *)
(* An ip argument is an address or Malformed, where inet_aton fails; a     *)
(* number argument is what atoi makes of it, 0 for a text.                 *)
(***************************************************************************)
EXTENDS Integers, Sequences, SequencesExt

CONSTANTS
    Addresses,      \* the addresses that occur on the command line
    Malformed,      \* an argument inet_aton does not accept
    Numbers,        \* what atoi returns, as an unsigned int
    Texts,          \* the arguments that are kept as text
    ShortRange,     \* 2^16
    FallbackIp,     \* 0x691e1bac, used for a malformed destination
    DefaultStart,   \* 0xac186536
    MaxOptions      \* bound: how many options are given

ASSUME CommandLineAssumption ==
    /\ Malformed \notin Addresses
    /\ Numbers \subseteq Nat
    /\ ShortRange \in Nat \ {0}
    /\ MaxOptions \in Nat

VARIABLES
    walk,       \* "parsing", "parsed" or "exited"
    options,    \* the members of ProgramOptions
    met         \* how many options have been met

optionVars == << walk, options, met >>

OptionIpPort == [ip : Addresses \cup {FallbackIp}, port : 0 .. ShortRange - 1]

Defaults ==
    [shouldStart                 |-> TRUE,
     numberOfCalls               |-> 10,
     callDuration                |-> 60,
     simulationDuration          |-> 600,
     startIp                     |-> DefaultStart,
     dstIpPortVector             |-> << >>,
     drlinkIpPortVector          |-> << >>,
     traffic                     |-> "Mirror",
     output                      |-> "Pcap",
     shouldUseSecureWebInterface |-> FALSE,
     dbPath                      |-> "",
     useDb                       |-> FALSE,
     useS3                       |-> FALSE,
     stackName                   |-> "ddgen"]

ParseInit ==
    /\ walk = "parsing"
    /\ options = Defaults
    /\ met = 0

-----------------------------------------------------------------------------
(* The next argument is an option, with all its values behind it. *)
NextOption ==
    /\ walk = "parsing"
    /\ met < MaxOptions
    /\ met' = met + 1

Meets == NextOption /\ UNCHANGED walk

(* inet_aton, with what the variable held before if the text is malformed. *)
ParsedIp(text, before) == IF text = Malformed THEN before ELSE text

Destination(ip, number) == [ip |-> ip, port |-> number % ShortRange]

WebConfig == Meets /\ options' = [options EXCEPT !.shouldStart = FALSE]

(* --nc, --dc and --ds *)
SetNumber ==
    \E number \in Numbers :
        \/ Meets /\ options' = [options EXCEPT !.numberOfCalls = number]
        \/ Meets /\ options' = [options EXCEPT !.callDuration = number]
        \/ Meets /\ options' = [options EXCEPT !.simulationDuration = number]

(* A malformed second address falls back on the first one. *)
DrLinkPair(text1, number1, text2, number2) ==
    LET ip1 == ParsedIp(text1, FallbackIp)
        ip2 == ParsedIp(text2, ip1)
    IN  << Destination(ip1, number1), Destination(ip2, number2) >>

(* Seeded fault: nothing becomes a destination of the SocketConsumer. *)
SocketsForgotten(sockets, drlinks) == sockets

(* dstIpPortVector = drlinkIpPortVector: destinations of --socket are lost. *)
SocketsAfterDrLink(sockets, drlinks) == drlinks

WithDrLink(o, pair) ==
    LET drlinks == o.drlinkIpPortVector \o pair
    IN  [o EXCEPT !.drlinkIpPortVector = drlinks,
                  !.dstIpPortVector    = SocketsAfterDrLink(@, drlinks),
                  !.traffic            = "DrLink",
                  !.output             = "Socket"]

DrLink ==
    \E text1, text2 \in Addresses \cup {Malformed}, number1, number2 \in Numbers :
        /\ Meets
        /\ options' = WithDrLink(options, DrLinkPair(text1, number1, text2, number2))

Mirror == Meets /\ options' = [options EXCEPT !.traffic = "Mirror"]

Pcap == Meets /\ options' = [options EXCEPT !.output = "Pcap"]

WithSocket(o, destination) ==
    [o EXCEPT !.dstIpPortVector = Append(@, destination), !.output = "Socket"]

Socket ==
    \E text \in Addresses \cup {Malformed}, number \in Numbers :
        /\ Meets
        /\ options' = WithSocket(options, Destination(ParsedIp(text, FallbackIp), number))

Start ==
    \E text \in Addresses \cup {Malformed} :
        /\ Meets
        /\ options' = [options EXCEPT !.startIp = ParsedIp(text, @)]

DbPath ==
    \E text \in Texts :
        /\ Meets
        /\ options' = [options EXCEPT !.useDb = TRUE, !.dbPath = text]

Secure == Meets /\ options' = [options EXCEPT !.shouldUseSecureWebInterface = TRUE]

UseDb == Meets /\ options' = [options EXCEPT !.useDb = TRUE]

UseS3 == Meets /\ options' = [options EXCEPT !.useS3 = TRUE]

StackName ==
    \E text \in Texts : Meets /\ options' = [options EXCEPT !.stackName = text]

(* Options with too few values behind them, the documented --noDb and --pacp, *)
(* and everything else.                                                       *)
UnknownOption == NextOption /\ walk' = "exited" /\ UNCHANGED options

EndOfArguments == walk = "parsing" /\ walk' = "parsed" /\ UNCHANGED << options, met >>

Done == walk # "parsing" /\ UNCHANGED optionVars

ParseNext ==
    \/ WebConfig \/ SetNumber \/ DrLink \/ Mirror \/ Pcap \/ Socket \/ Start
    \/ DbPath \/ Secure \/ UseDb \/ UseS3 \/ StackName
    \/ UnknownOption \/ EndOfArguments \/ Done

ParseSpec == ParseInit /\ [][ParseNext]_optionVars

-----------------------------------------------------------------------------
(* What main takes for granted *)

Options ==
    [shouldStart : BOOLEAN,
     numberOfCalls : Nat,
     callDuration : Nat,
     simulationDuration : Nat,
     startIp : Addresses \cup {DefaultStart},
     dstIpPortVector : Seq(OptionIpPort),
     drlinkIpPortVector : Seq(OptionIpPort),
     traffic : {"Mirror", "DrLink"},
     output : {"Pcap", "Socket"},
     shouldUseSecureWebInterface : BOOLEAN,
     dbPath : Texts \cup {""},
     useDb : BOOLEAN,
     useS3 : BOOLEAN,
     stackName : Texts \cup {"ddgen"}]

(* Every option keeps its type, whatever the arguments are.                   *)
OptionsTypeOK ==
    /\ walk \in {"parsing", "parsed", "exited"}
    /\ options \in Options
    /\ met \in 0 .. MaxOptions

(* Drlink traffic has somewhere to go: DRLinkCall divides the ipv4 id space   *)
(* by the number of destinations (callleg.cpp:217).                           *)
DrLinkHasDestinations ==
    options.traffic = "DrLink" => options.drlinkIpPortVector # << >>

(* A SocketConsumer has somewhere to send what it finds no socket for.        *)
SocketHasDestination ==
    options.output = "Socket" => options.dstIpPortVector # << >>

(* Whatever --socket, --mirror and --pcap stand between the --drlinks: the    *)
(* SocketConsumer has a socket for each destination that drlink calls use,    *)
(* so that no drlink leg is sent to the first socket by default.              *)
DrLinkReachable ==
    options.traffic = "DrLink" /\ options.output = "Socket" =>
        ToSet(options.drlinkIpPortVector) \subseteq ToSet(options.dstIpPortVector)
=============================================================================
