\* The tone channel with sweep and the wave channel, every limit scaled down;
\* the sequencer steps at each sample.
CONSTANTS
    Channels = {1, 3}
    Longest <- MCLongest
    MaxVolume = 1
    MaxPace = 2
    MaxFreq = 3
    TicksPerStep = 1
    Lengths = {0}
    Envelopes <- MCEnvelopes
    Freqs = {2}
    Sweeps <- MCSweeps
    AgeBound = 2
SPECIFICATION PsgSpec
INVARIANTS PsgTypeOK SoundingHasTime EnvelopeKeepsPace
PROPERTIES NotesEnd
