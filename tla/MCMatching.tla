------------------------------ MODULE MCMatching ------------------------------
(* The matcher on listings of different owners: two shoes that make a pair, one of which   *)
(* names its side in its title only.                                                        *)
EXTENDS Matching, Compatibility, TLC

CONSTANTS left, right   \* what a listing may offer

MCOwnerOf == [l \in Listing |-> l]

MCKeysOf == [c \in Category |-> {"brand", "size", "side"}]
MCExactKeysOf == [c \in Category |-> {"brand"}]
MCNumber == [v \in Value |-> CASE v = "42" -> 4200 [] v = "42.5" -> 4250 [] OTHER -> NaN]
MCWordsOf == [v \in Value |-> {}]

MCShoe(attributes, sides) ==
    [category |-> "shoes", intentionTag |-> "SELL", sides |-> sides, attributes |-> attributes,
     title |-> {"shoe"}, text |-> {"shoe"} \cup sides, city |-> NoCity, condition |-> "GOOD"]

MCSays ==
    left :> MCShoe("brand" :> "acme" @@ "size" :> "42" @@ "side" :> "left", {})
        @@ right :> MCShoe("brand" :> "acme" @@ "size" :> "42.5", {"right"})
MCComplement == {<<left, right>>, <<right, left>>}
MCNever == {}

(* The two fit each other and neither another of its kind, so that they may be exchanged.  *)
ASSUME MCPiecesFit ==
    /\ MCSays \in [{left, right} -> Content]
    /\ MCComplement
        = {pair \in {left, right} \X {left, right} : Fits(MCSays[pair[1]], MCSays[pair[2]])}

MCSymmetry == Permutations(Listing) \cup Permutations({left, right}) \cup Permutations(Worker)

=============================================================================
