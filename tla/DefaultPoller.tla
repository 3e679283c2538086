--------------------------- MODULE DefaultPoller ---------------------------
(***************************************************************************)
(* Poller::newDefaultPoller: the environment variable MUDUO_USE_POLL       *)
(* decides once, when the loop is made, which of the two pollers it has.   *)
(*                                                                         *)
(* The variables of EPollPoller are this module's; those of the other      *)
(* poller are in pfd, ...                                                  *)
(***************************************************************************)
EXTENDS EPollPoller, Sequences

CONSTANTS Reenable, DisableNew      \* see PollPoller

ASSUME DefaultPollerAssumption ==
    /\ Fds \subseteq Nat
    /\ {Reenable, DisableNew} \subseteq BOOLEAN

VARIABLES
    usePoll,         \* getenv("MUDUO_USE_POLL")
    pfd, pevents, pindex, premoved, pchannels, pollfds, pfailed

Poll == INSTANCE PollPoller
            WITH fd <- pfd, events <- pevents, index <- pindex, removed <- premoved,
                 channels <- pchannels, failed <- pfailed

arrayVars == <<pfd, pevents, pindex, premoved, pchannels, pollfds, pfailed>>
allVars == <<usePoll, vars, arrayVars>>

NewDefaultPoller ==
    /\ usePoll \in BOOLEAN
    /\ Init /\ Poll!Init
    /\ pfd = fd

\* The channels of the loop are those of its poller.
ChannelCall ==
    /\ UNCHANGED usePoll
    /\ IF usePoll THEN Poll!Next /\ UNCHANGED vars ELSE Next /\ UNCHANGED arrayVars

DefaultSpec == NewDefaultPoller /\ [][ChannelCall]_allVars

(* Properties: those of the two pollers *)

\* PollPoller's array and map agree, whatever was swapped.
ArraySound == Poll!ArraySound

\* PollPoller watches what the channels ask for.
ArrayPollerSpec == Poll!PollerSpec
=============================================================================
