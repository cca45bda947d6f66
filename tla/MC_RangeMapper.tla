---------------------------- MODULE MC_RangeMapper ----------------------------
EXTENDS RangeMapper

\* an inverted joystick axis whose input range -10..10 is centered at 0,
\* the case the class comment on invert_input describes
MC_CenteredInverted ==
  [center : {0}, deadband : {0, 2}, minimum : {-10}, maximum : {10},
   invert_input : {TRUE}, output_center : {0, 5},
   output_range : {-2, 1, 3}]

\* An input range 0..10 with its center off the middle, both deadbands,
\* both directions, a shifted output and output ranges that divide the two
\* half-ranges unevenly (and one given negative, which configure() makes
\* positive), and the centered inverted axis.
MC_Configs ==
  MC_CenteredInverted \cup
  [center : {4, 6}, deadband : {0, 2}, minimum : {0}, maximum : {10},
   invert_input : BOOLEAN, output_center : {0, 5},
   output_range : {-2, 1, 3}]

\* as MC_Configs, and an output range wider than the upper half-range
MC_WideConfigs ==
  MC_Configs \cup
  [center : {6}, deadband : {0}, minimum : {0}, maximum : {10},
   invert_input : {FALSE}, output_center : {0}, output_range : {5}]

\* the mapper is constructed for a joystick axis centered at 4 and is
\* reconfigured later
MC_InitConfigs ==
  [center : {4}, deadband : {2}, minimum : {0}, maximum : {10},
   invert_input : {FALSE}, output_center : {0}, output_range : {1}]

\* inputs on both sides of either range and every value in them
MC_Inputs == -11..11
=============================================================================
