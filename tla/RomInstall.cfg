SPECIFICATION Spec
CONSTANT Uploads <- MCUploads
INVARIANTS Installed NeverRefused
PROPERTIES AbortIsFinal 
CHECK_DEADLOCK FALSE
