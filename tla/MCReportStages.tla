--------------------------- MODULE MCReportStages ---------------------------
(***************************************************************************)
(* Three small clips for ReportStages.  The first has ten frames a second, *)
(* sound and a short scene in the middle; the second irregular frame times *)
(* that end early, one of them missing, and a scene too short to stand;    *)
(* the third a rate that is no whole number of milliseconds, and sound.    *)
(***************************************************************************)
EXTENDS ReportStages

MCClips ==
  {[duration_ms |-> 1000, numerator |-> 10, denominator |-> 1,
    frames |-> [k \in 1..10 |-> 100 * (k - 1)], scenes |-> {400, 560}, has_audio |-> TRUE],
   [duration_ms |-> 600, numerator |-> 20, denominator |-> 1,
    frames |-> << 0, 50, NoTime, 100, 250, 300 >>,
    scenes |-> {0, 200, 400, 550, 600}, has_audio |-> FALSE],
   [duration_ms |-> 401, numerator |-> 30000, denominator |-> 1001,
    frames |-> [k \in 1..12 |-> (2002000 * (k - 1) + 30000) \div 60000],
    scenes |-> {200}, has_audio |-> TRUE]}

\* Unreadable, all black, bright, bars above and below, and tones of which two blend.
MCPictures ==
  {Unreadable,
   << << 0, 0 >>, << 0, 0 >> >>,
   << << 90, 85 >> >>,
   << << 0, 0 >>, << 20, 80 >>, << 0, 0 >> >>,
   << << 10, 10, 10, 50 >>, << 50, 53, 53, 70 >> >>}

MCKeyRules ==
  [low_median |-> 35, low_spread |-> 40, low_shadow |-> 50,
   high_median |-> 65, high_spread |-> 40, high_shadow |-> 10, shadow_lstar |-> 20]

Hit(name, confidence, left, bottom) ==
  [class_name |-> name, detector_confidence |-> confidence,
   box |-> [x_min |-> left, y_min |-> 10, x_max |-> left + 40, y_max |-> bottom]]

\* Nobody; one person; the same nearer and to the right, twice, and a dog.
MCDetections ==
  {<< >>,
   << Hit("person", 90, 10, 60) >>,
   << Hit("person", 80, 18, 85), Hit("person", 70, 22, 85), Hit("dog", 90, 10, 60) >>}

Flow(global, residual) == [global |-> global, residual |-> residual]

MCFlows == {<< Flow(50, 9) >>, << Flow(3, 7), Flow(9, 1), Flow(50, 0) >>, << NoFlow, Flow(8, 3), Flow(2, 1) >>}

MCSounds ==
  {[length_ms |-> 350,
    windows |-> << [flux |-> 0, level |-> 10], [flux |-> 6, level |-> 40], [flux |-> 6, level |-> 40] >>]}

MCQueries ==
  {[start |-> 0, end |-> 1000, max |-> 3], [start |-> 150, end |-> 850, max |-> 4],
   [start |-> 0, end |-> 1000, max |-> 1]}

MCWeights == [cut |-> 35, audio |-> 30, motion |-> 35]

=============================================================================
