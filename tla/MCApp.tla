-------------------------------- MODULE MCApp --------------------------------
(* Two parts of the app without state in common in one run: a behaviour is  *)
(* one of Posting, or one walk of Topics.                                    *)
EXTENDS Posting, Topics

NoWalk == /\ sub = <<>> /\ topic = <<>> /\ spos = 0 /\ tpos = 0
          /\ walk = "none" /\ result = "unset"
NoPost == /\ file = [there |-> FALSE, writable |-> FALSE, bytes |-> <<>>] /\ changes = 0
          /\ call = Idle /\ calls = MaxCalls /\ refused = {}
          /\ sent = <<>> /\ heard = <<>> /\ refs = 0 /\ pending = FALSE /\ crashed = "none"

MCInit == \/ PostingInit /\ NoWalk
          \/ TopicsInit /\ NoPost
MCPosting == walk = "none" /\ PostingNext /\ UNCHANGED topicVars
MCTopics == walk # "none" /\ TopicsNext /\ UNCHANGED postingVars
MCSpec == MCInit /\ [][MCPosting \/ MCTopics]_<<postingVars, topicVars>> /\ PostingFairness
=============================================================================
