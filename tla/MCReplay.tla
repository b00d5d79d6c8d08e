------------------------------ MODULE MCReplay ------------------------------
\* Replay on a two by two board with one barrier or none.
EXTENDS Replay

MCCopStart == <<0, 0>>
MCThiefStart == <<1, 1>>
MCLayouts == {{}, {<<0, 1>>}, {<<1, 0>>}}
=============================================================================
