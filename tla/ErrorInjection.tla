--------------------------- MODULE ErrorInjection ---------------------------
(***************************************************************************)
(* The error injection library that rcopy and its server send through:     *)
(* the settings it takes from the environment (SettingsManager.cpp), what  *)
(* sendErr_init and fork do to them (network-hooks.c), and the fate of     *)
(* every packet handed to sendtoErr (PacketManager.cpp, MsgEvents/).       *)
(*                                                                         *)
(* rcopy is one process.  The server's root process only forks; each child *)
(* initialises the library for itself and then sends.  A forked process    *)
(* has its own copy of the library's state.                                *)
(***************************************************************************)
EXTENDS Integers, Sequences, FiniteSets

CONSTANTS
    Environments,   \* the CPE464_OVERRIDE_ variables a program may be started with
    Times,          \* what time(NULL) may return
    Modulus,        \* 2^32: message numbers are uint32_t
    MaxChildren,    \* bounds: how often the server forks,
    MaxMessages,    \* and how many packets a process sends
    Unset,          \* the variable is not in the environment
    Garbage         \* text in which strtol or strtof finds no number

RANDOM_SEED == 10

\* An error rate matters by whether drand48() may be, or must be, at most it.
\* (drand48() returning exactly 0, once in 2^48 calls, is left out.)
Rates == {"never", "sometimes", "always"}

\* The list variables are the tokens between the commas.
EnvironmentType ==
    [drop : Seq(Int \cup {Garbage}) \cup {Unset},
     flip : Seq(Int \cup {Garbage}) \cup {Unset},
     rate : Rates \cup {Unset, Garbage},
     seed : Int \cup {Unset, Garbage}]

ASSUME EnvironmentAssumption ==
    /\ Environments \subseteq EnvironmentType
    /\ Times \subseteq Int
    /\ Modulus \in Nat \ {0} /\ MaxChildren \in Nat /\ MaxMessages \in Nat
    /\ Unset \notin Int /\ Garbage \notin Int
    /\ Unset \notin Rates /\ Garbage \notin Rates
    /\ Unset \notin Seq(Int \cup {Garbage})

VARIABLES
    env,        \* the environment the program was started with
    program,    \* how it calls sendErr_init, and whether it forks
    process,    \* every process and its copy of the library, the root first
    fates       \* history: what became of each packet a process sent

libraryVars == <<env, program, process, fates>>

\* rcopy's error rate is its argv; its seed is random unless built for DEBUG.
\* The server's children ask for no errors and no random seed.
Programs ==
    [forks : {FALSE}, rate : Rates, random_flag : BOOLEAN] \cup
    [forks : {TRUE}, rate : {"never"}, random_flag : {FALSE}]

\* A process is a record of its settings and counters:
\*   [rate, seed, nextSeed, initialised,
\*    standard    events run on every packet, in order: "dropListed", "info"
\*    random      "drop", "flip": one of them is run at the error rate
\*    msgNo       0 .. Modulus - 1
\*    history     the packets infoSeqNo has counted]

-----------------------------------------------------------------------------
(* The environment *)

\* A number that cannot be read counts as not set; a list is set even if empty.
HasNumber(value) == value \notin {Unset, Garbage}

\* The tokens before the first that is not a number.
parser2ListLong(tokens) ==
    {tokens[i] : i \in {i \in DOMAIN tokens : \A j \in 1 .. i : tokens[j] # Garbage}}

parserLong2Uint32(longs) == {n % Modulus : n \in {n \in longs : n >= 0}}

ListOf(variable) ==
    IF variable = Unset THEN {} ELSE parserLong2Uint32(parser2ListLong(variable))

\* m_DropList: the message numbers the environment says to drop.
DropList == ListOf(env.drop)

\* A list with numbers is an event of its own; without any the event is random.
loadEnvData_ErrDrop_standard ==
    IF env.drop # Unset /\ DropList # {} THEN <<"dropListed">> ELSE << >>

loadEnvData_ErrDrop_random ==
    IF env.drop # Unset /\ DropList = {} THEN <<"drop">> ELSE << >>

\* Flipping listed packets is not implemented.
loadEnvData_ErrFlip ==
    IF env.flip # Unset /\ ListOf(env.flip) = {} THEN <<"flip">> ELSE << >>

\* The constructors of PacketManager and SettingsManager.
Loaded(now) ==
    [rate        |-> IF HasNumber(env.rate) THEN env.rate ELSE "never",
     seed        |-> IF HasNumber(env.seed) THEN env.seed ELSE now,
     nextSeed    |-> RANDOM_SEED,
     standard    |-> loadEnvData_ErrDrop_standard,
     random      |-> loadEnvData_ErrDrop_random \o loadEnvData_ErrFlip,
     initialised |-> FALSE,
     msgNo       |-> 0,
     history     |-> 0]

-----------------------------------------------------------------------------
(* What a program asks for gives way to the environment *)

setUserMode_ErrRate(rate, asked) == IF HasNumber(env.rate) THEN rate ELSE asked

setUserMode_SeedRand(seed, asked) == IF HasNumber(env.seed) THEN seed ELSE asked

\* Fault: the environment is not looked at.
setUserMode_ErrDrop_always(random) == Append(random, "drop")

setUserMode_ErrDrop(random) ==
    IF env.drop = Unset THEN Append(random, "drop") ELSE random

setUserMode_ErrFlip(random) ==
    IF env.flip = Unset THEN Append(random, "flip") ELSE random

addMsgEvent_Standard(standard, event) == Append(standard, event)

\* Both programs pass DROP_ON and FLIP_ON.
sendErr_init(p) ==
    /\ ~process[p].initialised
    /\ program.forks => p # 1
    /\ \E now \in Times :
        process' = [process EXCEPT ![p] = [process[p] EXCEPT
            !.initialised = TRUE,
            !.standard = addMsgEvent_Standard(@, "info"),
            !.rate = setUserMode_ErrRate(@, program.rate),
            !.random = setUserMode_ErrFlip(setUserMode_ErrDrop(@)),
            !.seed = setUserMode_SeedRand(@, IF program.random_flag THEN now
                                             ELSE process[p].nextSeed),
            !.nextSeed = IF program.random_flag THEN now ELSE @ + 1]]
    /\ UNCHANGED <<env, program, fates>>

\* Fault: nextSeed moves on in the child, after the fork.
forkMod_childOnly ==
    /\ program.forks /\ Len(process) <= MaxChildren
    /\ process' = Append(process, [process[1] EXCEPT
            !.nextSeed = @ + 1,
            !.seed = setUserMode_SeedRand(@, process[1].nextSeed)])
    /\ fates' = Append(fates, << >>)
    /\ UNCHANGED <<env, program>>

\* nextSeed moves on before the fork, so in the parent as in the child.
forkMod ==
    /\ program.forks /\ Len(process) <= MaxChildren
    /\ LET root == [process[1] EXCEPT !.nextSeed = @ + 1] IN
       process' = Append([process EXCEPT ![1] = root],
                         [root EXCEPT !.seed = setUserMode_SeedRand(@, process[1].nextSeed)])
    /\ fates' = Append(fates, << >>)
    /\ UNCHANGED <<env, program>>

-----------------------------------------------------------------------------
(* Sending *)

\* errorDrop::run of the i-th standard event on message n.
Drops(standard, i, n) == standard[i] = "dropListed" /\ n \in DropList

\* runMsgEvents over the standard events: the first that drops ends it.
DroppedAsListed(standard, n) == \E i \in DOMAIN standard : Drops(standard, i, n)

Counted(standard, n) ==
    \E i \in DOMAIN standard :
        /\ standard[i] = "info"
        /\ \A j \in 1 .. i - 1 : ~Drops(standard, j, n)

\* The random event processEvents may run: one of its list, at the error rate.
RandomEvents(c) ==
    (IF c.rate = "never" THEN {} ELSE {c.random[i] : i \in DOMAIN c.random}) \cup
    (IF c.rate = "always" /\ c.random # << >> THEN {} ELSE {"none"})

\* Fault: the last event that ran decides.
processEvents_last(c, n, event) ==
    CASE event = "drop" -> "dropped"
      [] event = "flip" -> "flipped"
      [] event = "none" -> IF DroppedAsListed(c.standard, n) THEN "dropped" ELSE "sent"

\* A drop outweighs a flip: the flipped packet is not sent either.
processEvents(c, n, event) ==
    CASE event = "drop" \/ DroppedAsListed(c.standard, n) -> "dropped"
      [] event = "flip" /\ ~DroppedAsListed(c.standard, n) -> "flipped"
      [] event = "none" /\ ~DroppedAsListed(c.standard, n) -> "sent"

\* Whatever becomes of the packet, the caller is told that all of it was sent.
sendtoErr(p) ==
    /\ process[p].initialised /\ Len(fates[p]) < MaxMessages
    /\ LET n == (process[p].msgNo + 1) % Modulus IN
       /\ \E event \in RandomEvents(process[p]) :
            fates' = [fates EXCEPT ![p] = Append(@, processEvents(process[p], n, event))]
       /\ process' = [process EXCEPT ![p] = [process[p] EXCEPT
            !.msgNo = n,
            !.history = IF Counted(process[p].standard, n) THEN @ + 1 ELSE @]]
    /\ UNCHANGED <<env, program>>

-----------------------------------------------------------------------------
LibraryInit ==
    /\ env \in Environments
    /\ program \in Programs
    /\ \E now \in Times : process = <<Loaded(now)>>
    /\ fates = << << >> >>

LibraryNext == forkMod \/ \E p \in DOMAIN process : sendErr_init(p) \/ sendtoErr(p)

LibrarySpec == LibraryInit /\ [][LibraryNext]_libraryVars

-----------------------------------------------------------------------------
(* Properties *)

\* The packets CPE464_OVERRIDE_ERR_DROP lists are the ones dropped: a listed
\* one always, whatever random event is drawn for it as well (a flipped packet
\* among them is never sent), and where there can be no random event no other.
DropsAsListed ==
    \A p \in DOMAIN process : \A i \in DOMAIN fates[p] :
        /\ (i % Modulus) \in DropList => fates[p][i] = "dropped"
        /\ \/ (i % Modulus) \in DropList
           \/ process[p].rate # "never" /\ process[p].random # << >>
           \/ fates[p][i] = "sent"

\* The environment wins over what the program passes to sendErr_init, in the
\* root as in every child that inherits the settings: the rate, the seed, and
\* which errors are random.  No error is in the list twice, so none is drawn
\* more often than another.
EnvironmentWins ==
    \A p \in DOMAIN process :
        LET c == process[p] IN
        c.initialised =>
            /\ c.rate = IF HasNumber(env.rate) THEN env.rate ELSE program.rate
            /\ HasNumber(env.seed) => c.seed = env.seed
            /\ \A error \in {"drop", "flip"} :
                 LET variable == IF error = "drop" THEN env.drop ELSE env.flip
                     places == {i \in DOMAIN c.random : c.random[i] = error}
                 IN \/ ListOf(variable) # {} /\ places = {}
                    \/ ListOf(variable) = {} /\ \E i \in places : places = {i}

\* Children that set no random seed still have seeds of their own, so no two of
\* them inject the same errors into the same packets: nextSeed moves on in the
\* parent before each fork and in the child at sendErr_init.
SeedsApart ==
    ~HasNumber(env.seed) =>
        \A p, q \in DOMAIN process :
            p # q /\ process[p].initialised /\ process[q].initialised
                => process[p].seed # process[q].seed

\* The total infoSeqNo reports at exit is the packets sent less the ones dropped
\* because the list names them: those never reach it, since the environment's
\* events are run before it.  The ones dropped at random are counted.
ReportLeavesOutListed ==
    \A p \in DOMAIN process :
        process[p].initialised =>
            process[p].history =
                Cardinality({i \in DOMAIN fates[p] : (i % Modulus) \notin DropList})

\* PacketManager.cpp:132-189.  The list decides alone on the packets it names: they
\* are dropped, and never counted.
ListIsHonoured == DropsAsListed /\ ReportLeavesOutListed
=============================================================================
