---------------------------- MODULE MemoryProfile ----------------------------
(***************************************************************************)
(* What a report is told about the user it is for                          *)
(* (domains/memory_profile/service.py): read off the user's last messages, *)
(* sessions and runs, with how sure of it the code is.                     *)
(*                                                                         *)
(* A text is the set of signal words in it; a platform or market is a      *)
(* model value, or blank.                                                  *)
(***************************************************************************)
EXTENDS Integers, Sequences, FiniteSets, SequencesExt, FiniteSetsExt

CONSTANTS
    Platforms,
    Blank,        \* no platform given
    MaxSessions   \* bound of the model on the sessions and runs that are read

\* The words that count: some count for the risk and for the style.
Cautious == {"steady", "risk", "verify_first"}
Bold == {"push", "scale_fast"}
\* "verify" is a part of "verify_first".
Evidence == {"risk", "verify_first", "verify", "data"}
Intuition == {"feels", "just_start"}
Words == Cautious \cup Bold \cup Evidence \cup Intuition

VARIABLE profile   \* what is known of a user: texts, named platforms

Limit == 3    \* most_common(3)

NoProfile == [texts |-> <<>>, named |-> <<Blank>>]

Init == profile = NoProfile

\* _collect_recent_user_messages: a long text of signal words and a short one.
Say == profile' \in [texts : {<<a, b>> : a \in SUBSET Words, b \in {{}, {"push"}, {"data", "steady"}}},
                     named : {<<Blank>>}]

\* The target of the request, then those of the sessions and runs.
Name == profile' \in [texts : {<<{}>>},
                      named : [1..MaxSessions + 1 -> Platforms \cup {Blank}]]

\* A profile is built, and the next one owes nothing to it.
Next == IF profile = NoProfile THEN Say \/ Name ELSE profile' = NoProfile

Spec == Init /\ [][Next]_profile

-----------------------------------------------------------------------------
\* token in joined, once for each token however often it is said.
Hits(texts, words) ==
    LET joined == UNION ToSet(texts)
    IN  Cardinality({w \in words : w \in joined \/ (w = "verify" /\ "verify_first" \in joined)})

\* _detect_risk_preference
RiskPreference(texts) ==
    LET cautious == Hits(texts, Cautious)
        bold == Hits(texts, Bold)
    IN  CASE cautious >= 2 /\ cautious >= bold -> [is |-> "medium_conservative", confidence |-> "medium"]
          [] bold >= 2 /\ bold > cautious -> [is |-> "growth_seeking", confidence |-> "medium"]
          [] OTHER -> [is |-> "balanced", confidence |-> "low"]

\* _detect_decision_style
DecisionStyle(texts) ==
    LET evidence == Hits(texts, Evidence)
        intuition == Hits(texts, Intuition)
    IN  CASE evidence >= 2 /\ evidence >= intuition -> [is |-> "evidence_first", confidence |-> "medium"]
          [] intuition >= 2 /\ intuition > evidence -> [is |-> "intuition_first", confidence |-> "low"]
          [] OTHER -> [is |-> "mixed", confidence |-> "low"]

Times(named, p) == Cardinality({i \in DOMAIN named : named[i] = p})
FirstAt(named, p) == Min({i \in DOMAIN named : named[i] = p})

\* Faulty variant of Before: among equals the last one named comes first.
LastBefore(named, p, q) ==
    Times(named, p) > Times(named, q) \/ (Times(named, p) = Times(named, q) /\ FirstAt(named, p) > FirstAt(named, q))

\* Counter.most_common keeps equals in the order in which they were met.
Before(named, p, q) ==
    Times(named, p) > Times(named, q) \/ (Times(named, p) = Times(named, q) /\ FirstAt(named, p) < FirstAt(named, q))

\* preferred_platforms and market_focus: blanks are left out, the target of the request comes first in the list.
Preferred(named) ==
    LET known == ToSet(named) \ {Blank}
        order == SetToSortSeq(known, LAMBDA p, q : Before(named, p, q))
    IN  SubSeq(order, 1, Min({Limit, Len(order)}))

\* low_confidence_fields
Unsure(p) ==
    (IF Preferred(p.named) = <<>> THEN {"preferred_platforms"} ELSE {})
    \cup (IF RiskPreference(p.texts).confidence = "low" THEN {"risk_preference"} ELSE {})
    \cup (IF DecisionStyle(p.texts).confidence = "low" THEN {"decision_style"} ELSE {})

-----------------------------------------------------------------------------
(* Properties. *)

\* A cautious word more never makes a user bold, nor a word of evidence an intuitive one,
\* although words count for both and one is a part of another; and a word more about risk, of
\* whichever kind, never makes the code less sure of it.
LeaningFollowsWords ==
    LET texts == profile.texts
    IN  /\ \A w \in Cautious : RiskPreference(<<{w}>> \o texts).is = "growth_seeking"
                                 => RiskPreference(texts).is = "growth_seeking"
        /\ \A w \in Evidence : DecisionStyle(<<{w}>> \o texts).is = "intuition_first"
                                 => DecisionStyle(texts).is = "intuition_first"
        /\ \A w \in Cautious \cup Bold : "risk_preference" \in Unsure([profile EXCEPT !.texts = <<{w}>> \o @])
                                 => "risk_preference" \in Unsure(profile)

\* The platform a report is asked for is among the preferred ones unless three others were
\* named more often, and leads them if none was.
TargetIsPreferred ==
    LET named == profile.named
        target == named[1]
        busier == {p \in Platforms : Times(named, p) > Times(named, target)}
    IN  target # Blank =>
            /\ Cardinality(busier) < Limit => target \in ToSet(Preferred(named))
            /\ busier = {} => Preferred(named)[1] = target

=============================================================================
