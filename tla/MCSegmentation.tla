---------------------------- MODULE MCSegmentation ----------------------------
(* An instance of Segmentation for TLC.                                       *)
EXTENDS Segmentation

\* The last hours and the last days.
QuickChoices ==
    {[groupBy |-> "hour", from |-> "past", to |-> "now"],
     [groupBy |-> "day", from |-> "now", to |-> "now"]}

\* Three actions come with an event or a failed call, two with both.
Bounded == acts + events + failures <= 4
==============================================================================
