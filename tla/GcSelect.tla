------------------------------ MODULE GcSelect ------------------------------
(***************************************************************************)
(* Victim selection of the garbage collector (gc_select_* in               *)
(* modules/ftl/ftl.c).  Each algorithm scans blocks in ascending order and *)
(* keeps the first one that beats all before it: gc_select_victim_block    *)
(* says that b is the block returned on device n, with cur the block      *)
(* being filled and g the value of gc_count.  Scores, doubles in the code, *)
(* are compared exactly by cross multiplication.                           *)
(***************************************************************************)
EXTENDS Nand

CONSTANTS
    CatAgeWeight,   \* FTL_GC_CAT_AGE_WEIGHT
    WindowSize,     \* FTL_GC_WINDOW_SIZE
    DChoices        \* FTL_GC_D_CHOICES_D

ASSUME GcSelectAssumption ==
    /\ CatAgeWeight \in Nat
    /\ WindowSize \in Nat
    /\ DChoices \in Nat \ {0}

GcAlgo == {"GREEDY", "COST_BENEFIT", "CAT", "WINDOWED", "D_CHOICES", "FRA"}

UsedIn(n, B) == {b \in B : n.state[b] = "USED"}

(* The scan "if (score > best) victim = i" over S in ascending order.      *)
FirstBest(S, Beats(_, _), b) ==
    /\ b \in S
    /\ \A c \in S : ~Beats(c, b) /\ (c < b => Beats(b, c))

(* The counting scans start from NAND_PAGES_PER_BLOCK + 1, so a block with *)
(* a counter above NAND_PAGES_PER_BLOCK is never chosen.                   *)
FewestValid(n, B, b) ==
    LET Fewer(x, y) == n.valid_page_cnt[x] < n.valid_page_cnt[y]
    IN  FirstBest({c \in UsedIn(n, B) : n.valid_page_cnt[c] <= PagesPerBlock},
                  Fewer, b)

gc_select_greedy(n, b) == FewestValid(n, UserBlock, b)

(* Mutant: the score counts the valid pages.                               *)
BugValidPages(n, b) == n.valid_page_cnt[b]

(* NAND_PAGES_PER_BLOCK - valid_pages, computed in uint32_t.               *)
InvalidPages(n, b) == (PagesPerBlock - n.valid_page_cnt[b]) % CntMod

gc_select_cost_benefit(n, b) ==
    LET Beats(x, y) == InvalidPages(n, x) * (n.erase_count[y] + 1)
                         > InvalidPages(n, y) * (n.erase_count[x] + 1)
    IN  FirstBest(UsedIn(n, UserBlock), Beats, b)

gc_select_cat(n, b) ==
    LET S   == UsedIn(n, UserBlock)
        Top == CHOOSE e \in {n.erase_count[c] : c \in S} :
                   \A c \in S : n.erase_count[c] <= e
        Num(x) == InvalidPages(n, x) *
                    (IF Top > 0 THEN Top - n.erase_count[x] + CatAgeWeight ELSE 1)
        Beats(x, y) == Num(x) * (n.erase_count[y] + 1) > Num(y) * (n.erase_count[x] + 1)
    IN  FirstBest(S, Beats, b)

(* The window ends at the block being filled and may hold spare blocks.    *)
Window(cur) == (IF cur >= WindowSize THEN cur - WindowSize ELSE 0)..cur

(* Mutant: no second scan when the window holds no candidate.              *)
BugNoFallback(n, cur, b) == FewestValid(n, Window(cur), b)

gc_select_windowed(n, cur, b) ==
    \/ FewestValid(n, Window(cur), b)
    \/ /\ \A c \in Block : ~FewestValid(n, Window(cur), c)
       /\ gc_select_greedy(n, b)

(* The i-th sample is the used block of rank (g * 7 + i * 13) % used_count; *)
(* of equally good samples the first one drawn wins, whatever its number.   *)
gc_select_d_choices(n, g, b) ==
    LET S         == UsedIn(n, UserBlock)
        Rank(c)   == Cardinality({x \in S : x < c})
        Draws(c)  == {i \in 0..(DChoices - 1) :
                         Rank(c) = (g * 7 + i * 13) % Cardinality(S)}
        First(c)  == CHOOSE i \in Draws(c) : \A j \in Draws(c) : i <= j
        Drawn     == {c \in S : Draws(c) # {} /\ n.valid_page_cnt[c] <= PagesPerBlock}
    IN  IF Cardinality(S) < DChoices THEN gc_select_greedy(n, b)
        ELSE /\ b \in Drawn
             /\ \A c \in Drawn \ {b} :
                   \/ n.valid_page_cnt[b] < n.valid_page_cnt[c]
                   \/ /\ n.valid_page_cnt[b] = n.valid_page_cnt[c]
                      /\ First(b) < First(c)

gc_select_fra(n, b) ==
    LET Empty == {c \in UsedIn(n, UserBlock) : n.valid_page_cnt[c] = 0}
    IN  IF Empty # {} THEN b \in Empty /\ \A c \in Empty : b <= c
        ELSE gc_select_greedy(n, b)

gc_select_victim_block(n, algo, cur, g, b) ==
    CASE algo = "COST_BENEFIT" -> gc_select_cost_benefit(n, b)
      [] algo = "CAT"          -> gc_select_cat(n, b)
      [] algo = "WINDOWED"     -> gc_select_windowed(n, cur, b)
      [] algo = "D_CHOICES"    -> gc_select_d_choices(n, g, b)
      [] algo = "FRA"          -> gc_select_fra(n, b)
      [] OTHER                 -> gc_select_greedy(n, b)
=============================================================================
