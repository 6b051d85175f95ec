----------------------------- MODULE TopicMatch -----------------------------
(***************************************************************************)
(* Topic filters of the MQTT client (MQTTClient.c, isTopicMatched).  A     *)
(* filter or a topic is a sequence of characters.  The code assumes a      *)
(* filter in the right format: "#" only at the end, wildcards only next to *)
(* a separator.                                                            *)
(***************************************************************************)
EXTENDS Integers, Sequences, SequencesExt

(* Mutant: "+" does not look for the end of the level. *)
AfterLevel_NextChar(topic, n) == n + 1

(* Where "+" goes on: behind the level it stands for. *)
AfterLevel(topic, n) ==
  CHOOSE e \in n + 1 .. Len(topic) + 1 :
    /\ e = Len(topic) + 1 \/ topic[e] = "/"
    /\ \A i \in n + 1 .. e - 1 : topic[i] # "/"

(* One turn of the loop for each character of the filter; n is where it is in the topic. *)
isTopicMatched(filter, topic) ==
  LET end == Len(topic) + 1
      matched[f \in 1 .. Len(filter) + 1, n \in 1 .. end] ==
        IF f > Len(filter) \/ n = end THEN f > Len(filter) /\ n = end
        ELSE /\ topic[n] = "/" => filter[f] = "/"
             /\ filter[f] \in {"+", "#", topic[n]}
             /\ matched[f + 1, CASE filter[f] = "+" -> AfterLevel(topic, n)
                                 [] filter[f] = "#" -> end
                                 [] OTHER -> n + 1]
  IN matched[1, 1]

-------------------------------------------------------------------------------
(* The levels between the separators. *)
Levels(s) ==
  LET ends == SetToSortSeq({i \in 1 .. Len(s) : s[i] = "/"} \cup {Len(s) + 1}, LAMBDA i, j : i < j)
  IN [k \in 1 .. Len(ends) |-> SubSeq(s, IF k = 1 THEN 1 ELSE ends[k - 1] + 1, ends[k] - 1)]

(* The format the code assumes. *)
WellFormed(filter) ==
  LET levels == Levels(filter)
  IN \A k \in 1 .. Len(levels) : \A i \in 1 .. Len(levels[k]) :
       /\ levels[k][i] \in {"+", "#"} => Len(levels[k]) = 1
       /\ levels[k][i] = "#" => k = Len(levels)

(* What a filter means, level by level: "+" is one level and "#" the rest, neither of which *)
(* may begin with an empty level. *)
Matches(filter, topic) ==
  LET F == Levels(filter)
      T == Levels(topic)
      agree(k) == F[k] = T[k] \/ (F[k] = <<"+">> /\ T[k] # <<>>)
  IN IF F[Len(F)] = <<"#">>
     THEN /\ Len(T) >= Len(F) /\ T[Len(F)] # <<>>
          /\ \A k \in 1 .. Len(F) - 1 : agree(k)
     ELSE Len(T) = Len(F) /\ \A k \in 1 .. Len(F) : agree(k)

(* isTopicMatched, which walks both strings character by character with one pass and no way *)
(* back, decides what the filter means by its levels. *)
TopicsMatched(filters, topics) ==
  \A f \in filters : WellFormed(f) => \A t \in topics : isTopicMatched(f, t) = Matches(f, t)

===============================================================================
