------------------------- MODULE MCPresetLifecycles -------------------------
EXTENDS PresetLifecycles

AllBuilds == [Version -> InitSystem]
=============================================================================
