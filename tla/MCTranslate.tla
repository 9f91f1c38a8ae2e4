---------------------------- MODULE MCTranslate ----------------------------
(* Instances of Translate for TLC. *)
EXTENDS Translate

MCOneLocal == <<I32>>
MCNoLocal == <<>>
MCTwoLocals == <<I32, F64>>

MCConst == {Sig(<<>>, I32)}
MCMixed == {Sig(<<>>, I32), Sig(<<>>, F64), Sig(<<F64>>, NoType)}

MCTables == {[targets |-> ts, default |-> d] : ts \in {<<>>, <<0>>, <<1, 0>>, <<1, 1>>}, d \in {0, 1}}
MCCalls == {Sig(<<>>, I32), Sig(<<I32>>, NoType)}
MCEmpty == {}

=============================================================================
