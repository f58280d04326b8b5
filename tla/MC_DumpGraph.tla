----------------------------- MODULE MC_DumpGraph -----------------------------
\* Three releases: a name that is paired with an id only after it is credited,
\* only at another level and in a role that is not kept; one that is paired
\* with two ids; and one that is paired with none.
EXTENDS DumpGraph

Of(level, name, kept, id) == [level |-> level, name |-> name, kept |-> kept, id |-> id]

ThreeReleases == <<
    [artists |-> {"a1"}, performers |-> {},
     credits |-> {Of("release", "x", TRUE, None), Of("track", "z", TRUE, None)}],
    [artists |-> {"a2"}, performers |-> {"a1"},
     credits |-> {Of("sub_track", "x", FALSE, "a2"), Of("release", "y", TRUE, "a1")}],
    [artists |-> {}, performers |-> {"a2"},
     credits |-> {Of("track", "y", TRUE, "a3")}] >>

OneMaster == << [artists |-> {"a3"}] >>

TwoWeights == <<"w0-0", "w0-0.1">>
=============================================================================
