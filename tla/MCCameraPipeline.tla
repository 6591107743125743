-------------------------- MODULE MCCameraPipeline --------------------------
EXTENDS CameraPipeline, TLC

\* Cameras and consumers are interchangeable where no liveness is checked.
CameraSymmetry == Permutations(Cameras) \cup Permutations(Consumers)
=============================================================================
