-------------------------- MODULE MCOperatorInterface --------------------------
EXTENDS OperatorInterface

MCCalibrated == {1, 3}
=============================================================================
