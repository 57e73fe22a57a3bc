-------------------------- MODULE CompatibilityProofs --------------------------
(***************************************************************************)
(* The rules and the score do not depend on which of two listings is being   *)
(* matched, whatever the tables, the weights and the threshold: what          *)
(* Matching assumes of its relation between pieces.                           *)
(***************************************************************************)
EXTENDS Compatibility, FiniteSetTheorems, TLAPS

LEMMA DistanceSymmetric == ASSUME NEW m \in Nat, NEW n \in Nat PROVE Distance(m, n) = Distance(n, m)
    BY DEF Distance

LEMMA LeastSymmetric == ASSUME NEW m \in Nat, NEW n \in Nat PROVE Least(m, n) = Least(n, m)
    BY DEF Least

(* Texts have as much in common whichever comes first. *)
LEMMA SimilaritySymmetric ==
    ASSUME NEW A \in SUBSET Word, NEW B \in SUBSET Word
    PROVE  Similarity(A, B) = Similarity(B, A)
<1>1. A \cap B = B \cap A /\ A \cup B = B \cup A
    OBVIOUS
<1>2. Cardinality(A) \in Nat /\ Cardinality(B) \in Nat
    BY CompatibilityAssumption, FS_Subset, FS_CardinalityType
<1>3. Least(Cardinality(A), Cardinality(B)) = Least(Cardinality(B), Cardinality(A))
    BY <1>2, LeastSymmetric
<1> QED
    BY <1>1, <1>3 DEF Similarity

(* The attributes of a listing, those taken from its text among them, are values. *)
LEMMA AttributesTyped ==
    ASSUME NEW x \in Content
    PROVE  \A k \in DOMAIN Attributes(x) : Attributes(x)[k] \in Value
<1>1. x.attributes \in Attributed /\ x.sides \in SUBSET Side
    BY DEF Content
<1>2. \A k \in DOMAIN x.attributes : x.attributes[k] \in Value
    BY <1>1 DEF Attributed
<1>3. CASE Says(x.attributes, "side") \/ Cardinality(x.sides) # 1
    BY <1>2, <1>3 DEF Attributes
<1>4. CASE ~(Says(x.attributes, "side") \/ Cardinality(x.sides) # 1)
    <2>1. x.sides # {}
        BY <1>4, FS_EmptySet
    <2>2. (CHOOSE s \in x.sides : TRUE) \in Value
        BY <1>1, <2>1, CompatibilityAssumption
    <2> QED
        BY <1>2, <1>4, <2>2 DEF Attributes
<1> QED
    BY <1>3, <1>4

LEMMA OppositeSymmetric ==
    ASSUME NEW v, NEW w
    PROVE  <<v, w>> \in COMPLEMENTARY_SIDES <=> <<w, v>> \in COMPLEMENTARY_SIDES
    BY DEF COMPLEMENTARY_SIDES

LEMMA BothSaySymmetric ==
    ASSUME NEW x, NEW y, NEW k
    PROVE  /\ BothSay(x, y, k) <=> BothSay(y, x, k)
           /\ Differ(x, y, k) <=> Differ(y, x, k)
    BY DEF BothSay, Differ

LEMMA OppositeSidesSymmetric ==
    ASSUME NEW x, NEW y
    PROVE  OppositeSides(x, y) <=> OppositeSides(y, x)
    BY OppositeSymmetric, BothSaySymmetric DEF OppositeSides

LEMMA ComplementaritySymmetric ==
    ASSUME NEW x, NEW y
    PROVE  /\ HasStructuredComplementarity(x, y) <=> HasStructuredComplementarity(y, x)
           /\ BothTrade(x, y) <=> BothTrade(y, x)
    BY OppositeSidesSymmetric DEF HasStructuredComplementarity, BothTrade

LEMMA SizesSymmetric ==
    ASSUME NEW x \in Content, NEW y \in Content, x.category = y.category
    PROVE  SizesFit(x, y) <=> SizesFit(y, x)
<1>1. CASE ~BothSay(x, y, "size")
    BY <1>1, BothSaySymmetric DEF SizesFit
<1>2. CASE BothSay(x, y, "size")
    <2> DEFINE v == Attributes(x)["size"]  w == Attributes(y)["size"]
    <2>1. v \in Value /\ w \in Value
        BY <1>2, AttributesTyped DEF BothSay, Says
    <2>2. SystemsDiffer(x, y) <=> SystemsDiffer(y, x)
        BY DEF SystemsDiffer
    <2>3. CASE NaN \in {NumberOf[v], NumberOf[w]}
        BY <1>2, <2>2, <2>3, BothSaySymmetric DEF SizesFit
    <2>4. CASE NaN \notin {NumberOf[v], NumberOf[w]}
        <3>1. NumberOf[v] \in Nat /\ NumberOf[w] \in Nat
            BY <2>1, <2>4, CompatibilityAssumption
        <3>2. Distance(NumberOf[v], NumberOf[w]) = Distance(NumberOf[w], NumberOf[v])
            BY <3>1, DistanceSymmetric
        <3> QED
            BY <1>2, <2>2, <2>4, <3>2, BothSaySymmetric DEF SizesFit
    <2> QED
        BY <2>3, <2>4
<1> QED
    BY <1>1, <1>2

(* Neither the order of two listings nor who of them is matched decides whether they pass the    *)
(* rules (matching.service.ts:450).                                                               *)
THEOREM RulesSymmetric ==
    ASSUME NEW x \in Content, NEW y \in Content
    PROVE  PassesHardCompatibility(x, y) <=> PassesHardCompatibility(y, x)
<1>1. CASE x.category # y.category
    BY <1>1 DEF PassesHardCompatibility
<1>2. CASE x.category = y.category
    BY <1>2, ComplementaritySymmetric, BothSaySymmetric, OppositeSidesSymmetric, SizesSymmetric
    DEF PassesHardCompatibility
<1> QED
    BY <1>1, <1>2

-----------------------------------------------------------------------------
LEMMA ValueScoreSymmetric ==
    ASSUME NEW v \in Value, NEW w \in Value, NEW k
    PROVE  ScoreAttributeValue(k, v, w) = ScoreAttributeValue(k, w, v)
<1>1. ScoreSide(v, w) = ScoreSide(w, v)
    BY OppositeSymmetric DEF ScoreSide
<1>2. ScoreYear(v, w) = ScoreYear(w, v) /\ ScoreSize(v, w) = ScoreSize(w, v)
    <2>1. CASE NaN \in {LeadingNumber[v], LeadingNumber[w]}
        BY <2>1 DEF ScoreYear, ScoreSize
    <2>2. CASE NaN \notin {LeadingNumber[v], LeadingNumber[w]}
        <3>1. LeadingNumber[v] \in Nat /\ LeadingNumber[w] \in Nat
            BY <2>2, CompatibilityAssumption
        <3>2. LeadingNumber[v] \div 100 \in Nat /\ LeadingNumber[w] \div 100 \in Nat
            BY <3>1
        <3>3. /\ Distance(LeadingNumber[v], LeadingNumber[w])
                    = Distance(LeadingNumber[w], LeadingNumber[v])
              /\ Distance(LeadingNumber[v] \div 100, LeadingNumber[w] \div 100)
                    = Distance(LeadingNumber[w] \div 100, LeadingNumber[v] \div 100)
            BY <3>1, <3>2, DistanceSymmetric
        <3> QED
            BY <2>2, <3>3 DEF ScoreYear, ScoreSize
    <2> QED
        BY <2>1, <2>2
<1>3. CASE k = "side"
    BY <1>1, <1>3 DEF ScoreAttributeValue
<1>4. CASE k # "side" /\ v = w
    BY <1>4
<1>5. CASE k # "side" /\ v # w
    BY <1>2, <1>5 DEF ScoreAttributeValue
<1> QED
    BY <1>3, <1>4, <1>5

LEMMA AttributeScoreSymmetric ==
    ASSUME NEW x \in Content, NEW y \in Content, x.category = y.category
    PROVE  /\ Considered(x, y) = Considered(y, x)
           /\ ScoreAttributes(x, y) = ScoreAttributes(y, x)
<1>1. Considered(x, y) = Considered(y, x)
    BY DEF Considered
<1>2. ASSUME NEW k \in Considered(x, y)
      PROVE  ScoreAttributeValue(k, Attributes(x)[k], Attributes(y)[k])
                = ScoreAttributeValue(k, Attributes(y)[k], Attributes(x)[k])
    <2>1. Attributes(x)[k] \in Value /\ Attributes(y)[k] \in Value
        BY AttributesTyped DEF Considered
    <2> QED
        BY <2>1, ValueScoreSymmetric
<1>3. KeyScores(x, y) = KeyScores(y, x)
    BY <1>1, <1>2 DEF KeyScores
<1>4. Similarity(x.title, y.title) = Similarity(y.title, x.title)
    BY SimilaritySymmetric DEF Content
<1> QED
    BY <1>1, <1>3, <1>4 DEF ScoreAttributes

(* Nor does the score (matching.service.ts:563).  *)
THEOREM ScoreSymmetric ==
    ASSUME NEW x \in Content, NEW y \in Content, x.category = y.category
    PROVE  ScoreCandidate(x, y) = ScoreCandidate(y, x)
<1>1. /\ Considered(x, y) = Considered(y, x)
      /\ ScoreAttributes(x, y) = ScoreAttributes(y, x)
    BY AttributeScoreSymmetric
<1>2. Similarity(x.text, y.text) = Similarity(y.text, x.text)
    BY SimilaritySymmetric DEF Content
<1>3. /\ ScoreCity(x, y) = ScoreCity(y, x)
      /\ ScoreIntent(x, y) = ScoreIntent(y, x)
      /\ ScoreCondition(x, y) = ScoreCondition(y, x)
    BY ComplementaritySymmetric DEF ScoreCity, ScoreIntent, ScoreCondition
<1> QED
    BY <1>1, <1>2, <1>3 DEF ScoreCandidate

(* So a run for either of two listings keeps the other or neither run does: this is what         *)
(* MatchingAssumption asks of Complement, without which a pair would be shown or not depending on *)
(* whose job ran last (matching.service.ts:109).                                                  *)
THEOREM FitsSymmetric ==
    ASSUME NEW x \in Content, NEW y \in Content
    PROVE  Fits(x, y) <=> Fits(y, x)
<1>1. CASE x.category # y.category
    BY <1>1 DEF Fits, PassesHardCompatibility
<1>2. CASE x.category = y.category
    BY <1>2, RulesSymmetric, ScoreSymmetric DEF Fits
<1> QED
    BY <1>1, <1>2

=============================================================================
