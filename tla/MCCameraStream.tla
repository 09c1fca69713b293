--------------------------- MODULE MCCameraStream ---------------------------
EXTENDS CameraStream

MCSessions == 1..MaxSessions
=============================================================================
