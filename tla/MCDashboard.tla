------------------------------ MODULE MCDashboard ------------------------------
\* The views of the dashboard for TLC.
EXTENDS Dashboard

CONSTANT d1   \* a device

\* Names get in each other's way; both findings are about one device; I is read as 1.
Everyone(a, b) == a # b
OneDevice(f) == d1
AsOne(ch) == "1"

\* Of the map: a frame the land's middle is in, and one it is not; zooms and drags that
\* ask for too much on either side.
TwoFrames == {[lo |-> 2, hi |-> 4, base |-> 1, extent |-> 6], [lo |-> 1, hi |-> 7, base |-> 3, extent |-> 8]}
TwoWants == {-9, 3}
TwoSteps == {-1, 1}

\* One system Help has no installer for, and one whose build is not published.
ThreeMachines == {[os |-> "linux", built |-> TRUE, published |-> TRUE],
                  [os |-> "windows", built |-> FALSE, published |-> TRUE],
                  [os |-> "freebsd", built |-> FALSE, published |-> FALSE]}

\* What is typed or pasted: a character, one that is read as another, a dash, one that
\* no code has, and a text with a dash in it.
FivePasted == {<<"A">>, <<"I">>, <<"-">>, <<"?">>, <<"A", "-", "I">>}
=============================================================================
