------------------------------- MODULE Topics -------------------------------
(***************************************************************************)
(* Topics of util_mosq.c and mosquitto.c: the two checks, the tokeniser,   *)
(* and mosquitto_topic_matches_sub as the walk over two strings that it    *)
(* is, one iteration of its loop a step.  The reference it is compared     *)
(* with matches level by level what the library's own tokeniser returns.   *)
(***************************************************************************)
EXTENDS Integers, FiniteSets, SequencesExt

CONSTANTS MaxTopic,   \* longest topic, 65535 in the code
          Letters     \* all characters but the separator, "+" and "#"

\* "end" stands for the NUL behind a string.
ASSUME TopicsAssumption ==
    MaxTopic \in Nat /\ Letters \cap {"+", "#", "/", "end"} = {}

VARIABLES sub, topic,      \* the arguments
          spos, tpos,      \* characters of each behind the walk
          walk,            \* "called", "walking" or "returned"
          result           \* *result

topicVars == <<sub, topic, spos, tpos, walk, result>>

PubTopicCheck(str) ==
    /\ \A i \in DOMAIN str : str[i] \notin {"+", "#"}
    /\ Len(str) <= MaxTopic

\* A wildcard fills its level and "#" ends the subscription.
SubTopicCheck(str) ==
    /\ \A i \in DOMAIN str : str[i] \in {"+", "#"} =>
           /\ i > 1 => str[i - 1] = "/"
           /\ i < Len(str) => str[i] = "+" /\ str[i + 1] = "/"
    /\ Len(str) <= MaxTopic

\* mosquitto_sub_topic_tokenise stops at each separator and at the end, the
\* level is what lies between two stops; a level without characters is NULL.
Stops(str) == {i \in 1 .. Len(str) + 1 : i = Len(str) + 1 \/ str[i] = "/"}
Behind(str, pos) == Cardinality({i \in Stops(str) : i <= pos})
Start(str, pos) == CHOOSE i \in 0 .. pos :
                       /\ i \in {0} \cup Stops(str)
                       /\ \A j \in i + 1 .. pos : j \notin Stops(str)

Tokens(str) ==
    [hier \in 1 .. Cardinality(Stops(str)) |->
        LET stop == CHOOSE i \in Stops(str) : Behind(str, i) = hier
        IN  SubSeq(str, Start(str, stop - 1) + 1, stop - 1)]

Strings(chars) == UNION {[1 .. n -> chars] : n \in 0 .. MaxTopic}

TopicsInit ==
    /\ sub \in {s \in Strings(Letters \cup {"+", "#", "/"}) : SubTopicCheck(s)}
    /\ topic \in {t \in Strings(Letters \cup {"/"}) : PubTopicCheck(t)}
    /\ spos = 0 /\ tpos = 0
    /\ walk = "called" /\ result = "unset"

-----------------------------------------------------------------------------
slen == Len(sub)
tlen == Len(topic)
At(str, pos) == IF pos < Len(str) THEN str[pos + 1] ELSE "end"   \* str[pos] in C
Dollar(str) == At(str, 0) = "$"

Answer(b) == IF b THEN "match" ELSE "no match"
Return(b) == walk' = "returned" /\ result' = Answer(b)

\* Topics of the broker are apart from all others.
MatchCalled ==
    /\ walk = "called"
    /\ IF slen > 0 /\ tlen > 0 /\ Dollar(sub) # Dollar(topic)
       THEN Return(FALSE)
       ELSE walk' = "walking" /\ UNCHANGED result
    /\ UNCHANGED <<sub, topic, spos, tpos>>

Walking == walk = "walking" /\ spos < slen /\ tpos < tlen

\* At the end of the topic: a "/#" is left of the subscription; nothing, or "+".
ParentOf == /\ tpos = tlen - 1 /\ spos = slen - 3
            /\ At(sub, spos + 1) = "/" /\ At(sub, spos + 2) = "#"
BothEnd == /\ tpos = tlen - 1
           /\ At(sub, spos + 1) \in {"+", "end"}
           /\ At(sub, spos + 1) = "+" => spos = slen - 2

\* Mutant: "foo/#" no longer matches "foo".
MatchSameNoParent ==
    /\ Walking /\ At(sub, spos) = At(topic, tpos)
    /\ spos' = spos + 1 /\ tpos' = tpos + 1
    /\ IF BothEnd THEN Return(TRUE) ELSE UNCHANGED <<walk, result>>
    /\ UNCHANGED <<sub, topic>>

MatchSame ==
    /\ Walking /\ At(sub, spos) = At(topic, tpos)
    /\ spos' = spos + 1 /\ tpos' = tpos + 1
    /\ IF ParentOf \/ BothEnd THEN Return(TRUE) ELSE UNCHANGED <<walk, result>>
    /\ UNCHANGED <<sub, topic>>

\* Where the level that tpos is in ends.
LevelEnd == CHOOSE e \in tpos .. tlen :
                At(topic, e) \in {"/", "end"} /\ \A i \in tpos .. e - 1 : At(topic, i) # "/"

MatchPlus ==
    /\ Walking /\ At(sub, spos) # At(topic, tpos) /\ At(sub, spos) = "+"
    /\ spos' = spos + 1 /\ tpos' = LevelEnd
    /\ IF tpos' = tlen /\ spos' = slen THEN Return(TRUE) ELSE UNCHANGED <<walk, result>>
    /\ UNCHANGED <<sub, topic>>

MatchHash ==
    /\ Walking /\ At(sub, spos) # At(topic, tpos) /\ At(sub, spos) = "#"
    /\ Return(spos + 1 = slen)
    /\ UNCHANGED <<sub, topic, spos, tpos>>

MatchDiffers ==
    /\ Walking /\ At(sub, spos) # At(topic, tpos) /\ At(sub, spos) \notin {"+", "#"}
    /\ Return(FALSE)
    /\ UNCHANGED <<sub, topic, spos, tpos>>

\* The walk is at an end of one string, or of both.
MatchRunsOut ==
    /\ walk = "walking" /\ ~ (spos < slen /\ tpos < tlen)
    /\ IF tpos < tlen \/ spos < slen THEN Return(FALSE)
                                     ELSE walk' = "returned" /\ UNCHANGED result
    /\ UNCHANGED <<sub, topic, spos, tpos>>

TopicsNext == \/ MatchCalled \/ MatchSame \/ MatchPlus \/ MatchHash \/ MatchDiffers
              \/ MatchRunsOut

TopicsSpec == TopicsInit /\ [][TopicsNext]_topicVars

-----------------------------------------------------------------------------
\* The rule of MQTT on two lists of levels.
Fits(pattern, level) == pattern = <<"+">> \/ pattern = level
Wild(pattern) == pattern \in {<<"+">>, <<"#">>}

Matches(levels, names) ==
    LET fixed == IF Last(levels) = <<"#">> THEN Len(levels) - 1 ELSE Len(levels)
    IN  /\ fixed <= Len(names)
        /\ fixed = Len(levels) => fixed = Len(names)
        /\ \A i \in 1 .. fixed : Fits(levels[i], names[i])

Expected == /\ ~ (Dollar(topic) /\ Wild(Tokens(sub)[1]))
            /\ Matches(Tokens(sub), Tokens(topic))

\* The walk meets the end of the topic before the "#": "+/#" and "a", the
\* parent level, "a/#" and "a/", an empty last level, and an empty topic.
MissedParent ==
    LET levels == Tokens(sub)
        names == Tokens(topic)
        fixed == Len(levels) - 1
    IN  \/ topic = <<>>
        \/ /\ Last(levels) = <<"#">> /\ fixed > 0
           /\ \/ Len(names) = fixed /\ levels[fixed] = <<"+">>
              \/ Len(names) = fixed + 1 /\ Last(names) = <<>>

\* mosquitto_topic_matches_sub answers as matching level by level does, except
\* where MissedParent says that it misses a match.
TopicsMatch ==
    walk = "returned" => IF sub = <<>> /\ topic = <<>> THEN result = "unset"
                         ELSE result = Answer(Expected /\ ~ MissedParent)
=============================================================================
