----------------------------- MODULE Chromatics -----------------------------
(***************************************************************************)
(* The chromatic pillar on one shot: adapters/vision/opencv_chromatics.py, *)
(* application/lighting_key.py and the validator of domain/chromatics.py.  *)
(* A picture is a matrix of whole L* values, or unreadable; a and b are    *)
(* left out, so a colour is its lightness and lightness stands for hex.  A *)
(* proportion is a count, over the same total for all swatches of a        *)
(* palette, and for the last one what rounding leaves of it.               *)
(***************************************************************************)
EXTENDS Ordering

CONSTANTS
  LetterboxLstarMax,    \* config.chromatic.letterbox_lstar_max
  LetterboxCoverage,    \* config.chromatic.letterbox_coverage, percent
  MinUsablePixelRatio,  \* config.chromatic.min_usable_pixel_ratio, percent
  Clusters,             \* config.chromatic.clusters
  DeltaEMerge,          \* config.chromatic.delta_e_merge
  MinSwatchProportion,  \* config.chromatic.min_swatch_proportion, percent
  KeyRules              \* config.chromatic.lighting_key_rules and shadow_lstar

ASSUME ChromaticAssumption ==
  /\ LetterboxLstarMax \in 0..100 /\ LetterboxCoverage \in 0..100
  /\ MinUsablePixelRatio \in 0..100 /\ MinSwatchProportion \in 0..100
  /\ Clusters \in 1..5 /\ DeltaEMerge \in Nat
  /\ KeyRules \in [low_median : 0..100, low_spread : 0..100, low_shadow : 0..100,
                   high_median : 0..100, high_spread : 0..100, high_shadow : 0..100,
                   shadow_lstar : 0..100]

Unreadable == << >>
Readable(picture) == picture # Unreadable
Height(picture) == Len(picture)
Width(picture) == Len(picture[1])
Size(picture) == Height(picture) * Width(picture)

\* A row or column belongs to a bar when enough of its pixels are near black.
IsBar(cells, lstar(_)) ==
  100 * Cardinality({c \in cells : lstar(c) <= LetterboxLstarMax})
    >= LetterboxCoverage * Cardinality(cells)

\* letterbox_mask: the bars that touch the border are cut away, top and bottom
\* first, and the sides are judged by the rows that are left.
letterbox_mask(picture) ==
  LET rows == 1..Height(picture)
      columns == 1..Width(picture)
      barRow(r) == IsBar(columns, LAMBDA c : picture[r][c])
      kept == {r \in rows : /\ \E t \in 1..r : ~barRow(t)
                            /\ \E b \in r..Height(picture) : ~barRow(b)}
      barColumn(c) == IsBar(kept, LAMBDA r : picture[r][c])
      inside == {c \in columns : /\ \E l \in 1..c : ~barColumn(l)
                                 /\ \E e \in c..Width(picture) : ~barColumn(e)}
  IN  IF kept = {} THEN {} ELSE kept \X inside

-----------------------------------------------------------------------------
\* A swatch before it is ranked: the lightness of its centre and its pixels.
Swatch == [lstar : 0..100, count : Nat \ {0}]

Total(swatches) == SumFunction([i \in 1..Len(swatches) |-> swatches[i].count])

\* The order of the centres, and of the palette.
Ahead(a, b) == a.count > b.count \/ (a.count = b.count /\ a.lstar < b.lstar)

\* The pixels that the masks of some pictures keep, each with its lightness.
Kept(pictures) ==
  UNION {LET mask == letterbox_mask(pictures[k]) IN
         {[picture |-> k, at |-> p, lstar |-> pictures[k][p[1]][p[2]]] : p \in mask}
           : k \in 1..Len(pictures)}

Tones(pixels) == {p.lstar : p \in pixels}

\* _fit_kmeans, external: one clustering into at most Clusters.  The darkest tones
\* are centres of their own and the others share the last one, at their mean.
Centres(pixels) ==
  LET rank(v) == Cardinality({u \in Tones(pixels) : u < v}) + 1
      cluster(k) == {p \in pixels : rank(p.lstar) = k \/ (k = Clusters /\ rank(p.lstar) > k)}
  IN  {[lstar |-> SumFunction([p \in cluster(k) |-> p.lstar]) \div Cardinality(cluster(k)),
        count |-> Cardinality(cluster(k))]
         : k \in {n \in 1..Clusters : cluster(n) # {}}}

near_enough(a, b) == (IF a.lstar >= b.lstar THEN a.lstar - b.lstar ELSE b.lstar - a.lstar) < DeltaEMerge

\* Two centres blend by their counts.
Blend(a, b) ==
  [lstar |-> (a.lstar * a.count + b.lstar * b.count) \div (a.count + b.count),
   count |-> a.count + b.count]

\* _merge_centres: in their order, each centre joins the first one near enough.
merge_centres(centres) ==
  LET items == InOrder(centres, Ahead)
      merged[k \in 0..Len(items)] ==
        IF k = 0 THEN << >>
        ELSE LET before == merged[k - 1]
                 near == {i \in 1..Len(before) : near_enough(before[i], items[k])}
             IN  IF near = {} THEN Append(before, items[k])
                 ELSE LET i == CHOOSE x \in near : \A y \in near : x <= y
                      IN  [before EXCEPT ![i] = Blend(@, items[k])]
  IN  merged[Len(items)]

\* _merge_duplicate_hex: swatches of one colour are one.
merge_duplicates(merged) ==
  LET same(v) == {i \in 1..Len(merged) : merged[i].lstar = v} IN
  {[lstar |-> v, count |-> SumFunction([i \in same(v) |-> merged[i].count])]
     : v \in {merged[i].lstar : i \in 1..Len(merged)}}

\* The swatches that are large enough; the first when none is.
LargeEnough(sorted) ==
  LET least == (MinSwatchProportion * Total(sorted)) \div 100
      kept == {i \in 1..Len(sorted) : sorted[i].count >= least /\ sorted[i].count >= 1}
  IN  IF kept = {} THEN << sorted[1] >> ELSE At(sorted, kept)

\* Deviation: the merged centres stay in the order they were merged in.
palette_unsorted(pixels) == LargeEnough(merge_centres(Centres(pixels)))

\* _palette: sorted again after the merge, the small ones dropped.
palette(pixels) ==
  LargeEnough(InOrder(merge_duplicates(merge_centres(Centres(pixels))), Ahead))

\* _palette: the proportion of the last swatch is what repeated subtraction leaves of 1.0.
\* It may lie below or above its count over the total, by less than what tells two counts
\* apart: here the sign of that error, left open.  Fractions of a power of two are exact,
\* and so is the half that two swatches of one count have.
Dust(swatches) ==
  IF Len(swatches) < 3 \/ Total(swatches) \in {2^k : k \in 0..20} THEN {0} ELSE -1..1

\* The order the validator asks of two neighbours, by proportion and then by hex; dust
\* is the error in the proportion of the second.
RankedBefore(a, b, dust) ==
  \/ a.count > b.count
  \/ a.count = b.count /\ (dust < 0 \/ (dust = 0 /\ a.lstar < b.lstar))

\* The validator of ChromaticValue.
palette_is_ranked(swatches, dust) ==
  LET n == Len(swatches) IN
  /\ n \in 1..5
  /\ \A i \in 1..(n - 1) :
       RankedBefore(swatches[i], swatches[i + 1], IF i + 1 = n THEN dust ELSE 0)

\* The lightness below or at which a share of the pixels lies.
Percentile(pixels, q) ==
  LET upto(v) == Cardinality({p \in pixels : p.lstar <= v})
      reached == {v \in Tones(pixels) : 100 * upto(v) >= q * Cardinality(pixels)}
  IN  CHOOSE v \in reached : \A u \in reached : v <= u

\* estimate_lighting_key.
estimate_lighting_key(pixels) ==
  LET median == Percentile(pixels, 50)
      spread == Percentile(pixels, 90) - Percentile(pixels, 10)
      dark == {p \in pixels : p.lstar < KeyRules.shadow_lstar}
      shadow == (100 * Cardinality(dark)) \div Cardinality(pixels)
  IN  IF /\ median < KeyRules.low_median
         /\ spread > KeyRules.low_spread \/ shadow > KeyRules.low_shadow
      THEN "LOW_KEY_ESTIMATE"
      ELSE IF /\ median > KeyRules.high_median
              /\ shadow < KeyRules.high_shadow
              /\ spread < KeyRules.high_spread
      THEN "HIGH_KEY_ESTIMATE"
      ELSE "BALANCED_ESTIMATE"

NoChroma(status, used) == [status |-> status, palette |-> << >>, key |-> "none", used |-> used]

\* analyze_shot.  used holds the samples whose pixels count, by their place.
AnalyzeChroma(pictures) ==
  LET decoded == At(pictures, {k \in 1..Len(pictures) : Readable(pictures[k])})
      pixels == Kept(decoded)
      total == SumFunction([k \in 1..Len(decoded) |-> Size(decoded[k])])
      used == {k \in 1..Len(pictures) : Readable(pictures[k]) /\ letterbox_mask(pictures[k]) # {}}
  IN  IF pictures = << >> THEN NoChroma("INSUFFICIENT_DATA", {})
      ELSE IF decoded = << >> THEN NoChroma("FAILED", {})
      ELSE IF 100 * Cardinality(pixels) < MinUsablePixelRatio * total \/ used = {}
      THEN NoChroma("INSUFFICIENT_DATA", used)
      ELSE [status |-> "OK", palette |-> palette(pixels),
            key |-> estimate_lighting_key(pixels), used |-> used]

=============================================================================
