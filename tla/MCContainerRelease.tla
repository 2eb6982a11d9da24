------------------------- MODULE MCContainerRelease -------------------------
\* One release with two executions of the build job, and the runs on either of them.
EXTENDS ContainerRelease
=============================================================================
