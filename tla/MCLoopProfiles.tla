---------------------------- MODULE MCLoopProfiles ----------------------------
(* Small instances of LoopProfiles for TLC.                                  *)
EXTENDS LoopProfiles, TLC

MCSignature == {<<"passed", 1>>, <<"blocked", 1>>, <<"failed", 1>>, <<"failed", 2>>,
                <<"incomplete", 1>>, <<"incomplete", 2>>}
MCFreeSignature == {<<"failed", 1>>, <<"failed", 2>>}

\* the last two come to no run: one is refused, for one building the loop raises
MCLeaves == {{"verify"}, {"read"}, {"read", "patch", "verify"},
             {"read", "patch"}, {"read", "verify"}}

\* "old" holds what the patches replace, "new" what most of them put there;
\* "more" is "old" with a new_text around old_text, "most" that once more
MCContent == {"old", "new", "more", "most"}
Fix == [changes |-> "old" :> "new", present |-> {"new"}, expects |-> "any"]
PinnedFix == [Fix EXCEPT !.expects = "old"]
Undo == [changes |-> "new" :> "old", present |-> {"old"}, expects |-> "any"]
Wrap == [changes |-> "old" :> "more" @@ "more" :> "most", present |-> {}, expects |-> "any"]
MCPatches == {Fix, PinnedFix, Undo, Wrap}
MCScript == <<Fix, Undo, Wrap>>

\* the last two are refused: too long, and empty
MCProposals == {<<Look>>, <<Patch(Fix), Check>>, <<Check, Patch(Undo)>>,
                <<Patch(PinnedFix)>>, <<Check, Patch(Wrap), Check>>,
                <<Look, Look, Look, Check>>, <<>>}

=============================================================================
