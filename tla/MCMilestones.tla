----------------------------- MODULE MCMilestones -----------------------------
(* Milestones for TLC, with two pages.                                     *)
EXTENDS Milestones, TLC
CONSTANTS a, b, noTab

MCTabs == {a, b}
MCNoTab == noTab
MCWrong == {-1}
Sym == Permutations(MCTabs)

(* How far each milestone is, how many more operations, storage lost?      *)
MCStarts ==
    {<<"t02", 0, 2, FALSE>>, <<"t02", 1, 1, FALSE>>,
     <<"t03", 1, 2, FALSE>>, <<"t03", 4, 1, FALSE>>, <<"t03", 5, 1, FALSE>>,
     <<"t03", 5, 2, TRUE>>,
     <<"t04", 0, 2, FALSE>>, <<"t04", 2, 1, FALSE>>, <<"t04", 4, 1, FALSE>>,
     <<"t04", 2, 1, TRUE>>,
     <<"t05", 0, 2, FALSE>>, <<"t05", 1, 2, FALSE>>, <<"t05", 2, 1, FALSE>>,
     <<"t05", 3, 1, FALSE>>, <<"t05", 4, 1, FALSE>>,
     <<"t05", 1, 1, TRUE>>, <<"t05", 2, 0, TRUE>>}
=============================================================================
