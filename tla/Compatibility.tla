----------------------------- MODULE Compatibility -----------------------------
(***************************************************************************)
(* The rules and the score by which MatchingService pairs two listings that *)
(* are ACTIVE and of different owners, without the semantic search (which   *)
(* SEMANTIC_MATCHING_ENABLED switches on, and which replaces a score).      *)
(*                                                                         *)
(* Texts are the sets of their words without stop words, attribute values    *)
(* are opaque but for how they read as numbers and words, and the tables of   *)
(* attributes per category are parameters.  Scores are in thousandths,        *)
(* rounded down.                                                              *)
(***************************************************************************)
EXTENDS Naturals, FiniteSets, Functions

CONSTANTS
    Category,       \* "category", as getCategoryKey writes it
    Key,            \* attribute names, as normalizeKey writes them
    KeysOf,         \* CATEGORY_KEYS: the attributes a category is scored by
    ExactKeysOf,    \* exactKeysByCategory: those that must not differ
    WideSizes,      \* the categories whose sizes may differ by 1 instead of 0.5
    Value,          \* attribute values, trimmed and in lower case
    Blank,          \* the value "", left of one of spaces
    NumberOf,       \* Number(v), in hundredths
    LeadingNumber,  \* parseFloat(v), in hundredths
    NaN,            \* not a number
    Word,           \* the words of texts
    WordsOf,        \* tokenize(v)
    City, NoCity,
    Condition,
    AttributeWeight, SemanticWeight,    \* MATCH_ATTRIBUTE_WEIGHT and _SEMANTIC_WEIGHT, in hundredths
    ScoreThreshold  \* MATCH_SCORE_THRESHOLD

COMPLEMENTARY_SIDES ==
    {<<"left", "right">>, <<"right", "left">>, <<"top", "bottom">>, <<"bottom", "top">>,
     <<"upper", "lower">>, <<"lower", "upper">>, <<"front", "back">>, <<"back", "front">>}

Side == {pair[1] : pair \in COMPLEMENTARY_SIDES}

ASSUME CompatibilityAssumption ==
    /\ KeysOf \in [Category -> SUBSET Key]
    /\ ExactKeysOf \in [Category -> SUBSET Key]
    /\ WideSizes \subseteq Category
    /\ NumberOf \in [Value -> Nat \cup {NaN}] /\ LeadingNumber \in [Value -> Nat \cup {NaN}]
    /\ NaN \notin Nat
    /\ Side \subseteq Value
    /\ WordsOf \in [Value -> SUBSET Word] /\ IsFiniteSet(Word)
    /\ AttributeWeight \in Nat /\ SemanticWeight \in Nat

IntentionTag == {"SELL", "TRADE", "DONATE", "FIX", "RECYCLE"}

(* What a listing says. *)
Attributed == UNION {[K -> Value] : K \in SUBSET Key}

Content ==
    [category : Category, intentionTag : IntentionTag, attributes : Attributed,
     sides : SUBSET Side,       \* the sides its title, description and keyword mention
     title : SUBSET Word,       \* "pairingKeyword", or else "title"
     text : SUBSET Word,        \* buildListingText
     city : City \cup {NoCity}, condition : Condition]

-----------------------------------------------------------------------------
Least(m, n) == IF m <= n THEN m ELSE n
Greatest(m, n) == IF m <= n THEN n ELSE m
Distance(m, n) == IF m <= n THEN n - m ELSE m - n

(* scoreSemanticText: the words in common, of all and of the shorter text's. *)
Similarity(left, right) ==
    IF left = {} \/ right = {} THEN 0
    ELSE LET common == Cardinality(left \cap right) IN
         Greatest((1000 * common) \div Cardinality(left \cup right),
                  (850 * common) \div Least(Cardinality(left), Cardinality(right)))

(* getCompatibilityAttributes: a side that is not given is taken from the text, if that    *)
(* mentions one side only.                                                                *)
Says(attributes, k) == k \in DOMAIN attributes /\ attributes[k] # Blank

Attributes(x) ==
    IF Says(x.attributes, "side") \/ Cardinality(x.sides) # 1 THEN x.attributes
    ELSE [k \in DOMAIN x.attributes \cup {"side"} |->
            IF k = "side" THEN CHOOSE s \in x.sides : TRUE ELSE x.attributes[k]]

BothSay(x, y, k) == Says(Attributes(x), k) /\ Says(Attributes(y), k)

Differ(x, y, k) == BothSay(x, y, k) /\ Attributes(x)[k] # Attributes(y)[k]

(* hasStructuredComplementarity *)
OppositeSides(x, y) ==
    BothSay(x, y, "side")
        /\ <<Attributes(x)["side"], Attributes(y)["side"]>> \in COMPLEMENTARY_SIDES

Needs(x, y) ==
    /\ Says(Attributes(x), "neededpiece")
    /\ Similarity(WordsOf[Attributes(x)["neededpiece"]], y.text) >= 450

HasStructuredComplementarity(x, y) == Needs(x, y) \/ Needs(y, x) \/ OppositeSides(x, y)

BothTrade(x, y) == x.intentionTag = "TRADE" /\ y.intentionTag = "TRADE"

-----------------------------------------------------------------------------
(* passesHardCompatibility *)
SizeSystem(x) ==
    LET attributes == Attributes(x) IN
    IF "sizesystem" \in DOMAIN attributes THEN attributes["sizesystem"]
    ELSE IF "sizeunit" \in DOMAIN attributes THEN attributes["sizeunit"]
    ELSE Blank

SystemsDiffer(x, y) ==
    Blank \notin {SizeSystem(x), SizeSystem(y)} /\ SizeSystem(x) # SizeSystem(y)

MaxDelta(category) == IF category \in WideSizes THEN 100 ELSE 50

SizesFit(x, y) ==
    BothSay(x, y, "size") =>
        LET v == Attributes(x)["size"]
            w == Attributes(y)["size"]
        IN  /\ ~SystemsDiffer(x, y)
            /\ IF NaN \in {NumberOf[v], NumberOf[w]} THEN v = w
               ELSE Distance(NumberOf[v], NumberOf[w]) <= MaxDelta(x.category)

PassesHardCompatibility(x, y) ==
    /\ x.category = y.category
    /\ BothTrade(x, y) \/ HasStructuredComplementarity(x, y)
    /\ ~Differ(x, y, "pairingtype")
    /\ BothSay(x, y, "side") => OppositeSides(x, y)
    /\ SizesFit(x, y)
    /\ \A k \in ExactKeysOf[x.category] : ~Differ(x, y, k)

-----------------------------------------------------------------------------
(* scoreAttributeValue *)
ScoreYear(v, w) ==
    LET delta == Distance(LeadingNumber[v] \div 100, LeadingNumber[w] \div 100) IN
    IF NaN \in {LeadingNumber[v], LeadingNumber[w]} THEN 0
    ELSE IF delta = 0 THEN 1000
    ELSE IF delta <= 2 THEN 800
    ELSE IF delta <= 5 THEN 400 ELSE 0

ScoreSize(v, w) ==
    LET delta == Distance(LeadingNumber[v], LeadingNumber[w]) IN
    IF NaN \in {LeadingNumber[v], LeadingNumber[w]} THEN 0
    ELSE IF delta = 0 THEN 1000
    ELSE IF delta <= 50 THEN 800
    ELSE IF delta <= 100 THEN 450 ELSE 0

ScoreSide(v, w) ==
    IF <<v, w>> \in COMPLEMENTARY_SIDES THEN 1000 ELSE IF v = w THEN 200 ELSE 0

ScoreAttributeValue(k, v, w) ==
    CASE k = "side" -> ScoreSide(v, w)
      [] k # "side" /\ v = w -> 1000
      [] k # "side" /\ v # w -> CASE k = "pieceidentifier" -> 900
                                 [] k = "year" -> ScoreYear(v, w)
                                 [] k = "size" -> ScoreSize(v, w)
                                 [] OTHER -> 0

(* scoreAttributes: those both have, or else their titles. *)
Considered(x, y) ==
    KeysOf[x.category] \cap DOMAIN Attributes(x) \cap DOMAIN Attributes(y)

KeyScores(x, y) ==
    [k \in Considered(x, y) |-> ScoreAttributeValue(k, Attributes(x)[k], Attributes(y)[k])]

ScoreAttributes(x, y) ==
    IF Considered(x, y) = {} THEN Greatest(350, Similarity(x.title, y.title))
    ELSE SumFunction(KeyScores(x, y)) \div Cardinality(Considered(x, y))

ScoreCity(x, y) ==
    IF NoCity \in {x.city, y.city} THEN 500 ELSE IF x.city = y.city THEN 1000 ELSE 0

ScoreIntent(x, y) ==
    IF BothTrade(x, y) THEN 850 ELSE IF HasStructuredComplementarity(x, y) THEN 750 ELSE 0

ScoreCondition(x, y) == IF x.condition = y.condition THEN 1000 ELSE 600

(* scoreCandidate *)
ScoreCandidate(x, y) ==
    LET attribute == ScoreAttributes(x, y)
        semantic == Similarity(x.text, y.text)
        common == ScoreCity(x, y) * 15 + ScoreCondition(x, y) * 5
    IN  IF Considered(x, y) = {}
        THEN (Greatest(attribute, semantic) * 65 + common + ScoreIntent(x, y) * 15) \div 100
        ELSE (Least(1000, (attribute * AttributeWeight + semantic * SemanticWeight) \div 100) * 70
                + common + ScoreIntent(x, y) * 10) \div 100

(* What runMatchForListing keeps of the candidates it reads. *)
Fits(x, y) == PassesHardCompatibility(x, y) /\ ScoreCandidate(x, y) >= ScoreThreshold

=============================================================================
