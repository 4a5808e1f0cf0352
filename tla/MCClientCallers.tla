--------------------------- MODULE MCClientCallers ---------------------------
(* Instances of ClientCallers for TLC, and samples of ValueEncoding.        *)
EXTENDS ClientCallers

Samples == {<<1, 2, 3, 4>>, <<1, 2, 3, 4, 5, 6, 7, 8>>, <<0, 255, 0, 128>>}

\* Two values are appended, and told apart again.
ASSUME ListsAreDecoded ==
  \A e, w \in Orders :
    LET payload == wideToBytes(e, w, <<1, 2, 3, 4>>) \o wideToBytes(e, w, <<5, 6, 7, 8>>)
        values == << <<1, 2, 3, 4>>, <<5, 6, 7, 8>> >>
    IN  widesToBytes(4, e, w, values) = payload /\ bytesToWides(4, e, w, payload) = values

\* encoding_test.go packs and unpacks some lists; here all of up to ten.
ASSUME BoolsComeBack ==
  \A n \in 0..10 : \A v \in [1..n -> BOOLEAN] : decodeBools(n, encodeBools(v)) = v
=============================================================================
